---- MODULE Spec2Model ----
(***************************************************************************)
(* LegalMind-AI: the hybrid retrieval engine and the ingestion beside it.  *)
(*                                                                         *)
(* Scores are exact rationals on an integer grid.  A normalised score is   *)
(* an integer in 0..Scale standing for n/Scale, a fused score an integer   *)
(* in 0..Scale*AlphaDen standing for n/(Scale*AlphaDen).  IEEE rounding is *)
(* not modelled.  Python's None and 0 are both falsy; an optional integer  *)
(* argument is modelled by 0..Max and 0 stands for both.                   *)
(*                                                                         *)
(* SpecFusion drives one HybridSearch.search, SpecMerge the merge loop of  *)
(* Retriever.retrieve, SpecRerank one ReRanker.rerank, each on drawn       *)
(* inputs.  Spec runs whole retrieve calls over a fixed store, SpecIngest  *)
(* runs them interleaved with embed_and_store calls, SpecTwice repeats one *)
(* call and keeps what the call before returned.  SpecWeights fuses one    *)
(* pair of result sets under two weights; SpecNormalize, SpecParents,      *)
(* SpecMultiQuery and SpecChunker drive _normalize_scores,                 *)
(* _get_parent_context, multi_query and chunk_document on drawn inputs.    *)
(* SpecLexical runs one search over raw BM25 scores of either sign,        *)
(* SpecConcurrent two callers of embed_and_store, SpecLimiter the          *)
(* RateLimiter on an integer clock, SpecProvider LLMProvider.invoke and    *)
(* SpecGraph one run of the orchestrator graph.                            *)
(***************************************************************************)
EXTENDS Integers, Sequences, FiniteSets, TLC

\* ---------------------------------------------------------------- bounds
MaxRaw == 2          \* raw BM25 scores range over 0..MaxRaw
MaxK == 2            \* the caller's k and top_n range over 0..MaxK

\* ------------------------------------------------------ program constants
RETRIEVAL_TOP_K == 5
RERANKER_TOP_N == 3
batch_size == 100
MaxDistance == 2     \* cosine distance lies in [0, 2]
AlphaDen == 10       \* alpha is a number of tenths
HYBRID_ALPHA == 6    \* 0.6

\* ---------------------------------------------------------------- helpers
Max2(a, b) == IF a >= b THEN a ELSE b
Min2(a, b) == IF a <= b THEN a ELSE b

RECURSIVE Gcd(_, _)
Gcd(a, b) == IF b = 0 THEN a ELSE Gcd(b, a % b)

RECURSIVE LcmUpTo(_)
LcmUpTo(n) == IF n <= 1 THEN 1 ELSE LET l == LcmUpTo(n - 1) IN (l * n) \div Gcd(l, n)

\* every difference max - min of raw scores divides Scale
Scale == LcmUpTo(Max2(MaxRaw, MaxDistance))

Range(s) == {s[i] : i \in 1..Len(s)}

SeqMin(s) == CHOOSE m \in Range(s) : \A x \in Range(s) : m <= x
SeqMax(s) == CHOOSE m \in Range(s) : \A x \in Range(s) : m >= x

Prefix(s, n) == SubSeq(s, 1, Min2(Max2(n, 0), Len(s)))

Reverse(s) == [i \in 1..Len(s) |-> s[Len(s) + 1 - i]]

\* -------------------------------------------------------------- the corpus
Docs == {"d1", "d2"}
Chunks == {"c1", "c2", "c3", "c4"}
Parents == {"p1", "p2", "p3"}

\* chunk_document: the child chunks of a file, in production order
ChildrenOf(d) == IF d = "d1" THEN <<"c1", "c2">> ELSE <<"c3", "c4">>
\* chunk_document: the parent chunks of a file, in production order
ParentsOf(d) == IF d = "d1" THEN <<"p1">> ELSE <<"p2", "p3">>
FilenameOf(c) == IF c \in {"c1", "c2"} THEN "d1" ELSE "d2"
ParentIdOf(c) == CASE c \in {"c1", "c2"} -> "p1" [] c = "c3" -> "p2" [] OTHER -> "p3"

\* Chunk.metadata of a child chunk
MetaOf(c) == [chunk_type |-> "child", parent_id |-> ParentIdOf(c), filename |-> FilenameOf(c)]

\* ------------------------------------------------------------------ scores
\* equal scores sent to 0.0, as the formula without its guard would suggest
_normalize_scores_zeros(scores) ==
    IF scores = <<>> THEN <<>>
    ELSE LET min_s == SeqMin(scores)
             max_s == SeqMax(scores)
         IN  IF max_s - min_s = 0
             THEN [i \in 1..Len(scores) |-> 0]
             ELSE [i \in 1..Len(scores) |-> ((scores[i] - min_s) * Scale) \div (max_s - min_s)]

\* HybridSearch._normalize_scores
_normalize_scores(scores) ==
    IF scores = <<>> THEN <<>>
    ELSE LET min_s == SeqMin(scores)
             max_s == SeqMax(scores)
         IN  IF max_s - min_s = 0
             THEN [i \in 1..Len(scores) |-> Scale]
             ELSE [i \in 1..Len(scores) |-> ((scores[i] - min_s) * Scale) \div (max_s - min_s)]

\* an unstable descending insertion: equal scores change places
RECURSIVE InsertDesc_unstable(_, _)
InsertDesc_unstable(r, s) ==
    IF s = <<>> THEN <<r>>
    ELSE IF Head(s).score > r.score THEN <<Head(s)>> \o InsertDesc_unstable(r, Tail(s))
    ELSE <<r>> \o s

\* list.sort(key=score, reverse=True) / sorted(..., reverse=True): stable
RECURSIVE InsertDesc(_, _)
InsertDesc(r, s) ==
    IF s = <<>> THEN <<r>>
    ELSE IF Head(s).score >= r.score THEN <<Head(s)>> \o InsertDesc(r, Tail(s))
    ELSE <<r>> \o s

RECURSIVE SortDescPrefix(_, _)
SortDescPrefix(s, n) == IF n = 0 THEN <<>> ELSE InsertDesc(s[n], SortDescPrefix(s, n - 1))

SortByScoreDesc(s) == SortDescPrefix(s, Len(s))

\* np.argsort(raw_scores): indices by ascending score, ties by ascending index
RECURSIVE InsertAsc(_, _, _)
InsertAsc(i, idx, raw) ==
    IF idx = <<>> THEN <<i>>
    ELSE IF raw[Head(idx)] <= raw[i] THEN <<Head(idx)>> \o InsertAsc(i, Tail(idx), raw)
    ELSE <<i>> \o idx

RECURSIVE ArgsortPrefix(_, _)
ArgsortPrefix(raw, n) == IF n = 0 THEN <<>> ELSE InsertAsc(n, ArgsortPrefix(raw, n - 1), raw)

argsort(raw) == ArgsortPrefix(raw, Len(raw))

\* `k or settings.RETRIEVAL_TOP_K`
EffK(k) == IF k = 0 THEN RETRIEVAL_TOP_K ELSE k

\* ------------------------------------------------ vector store collaborator
\* collection.query(n_results = n): the n stored chunks nearest to the query,
\* nearest first, as (id, distance); dist maps a chunk id to its distance
RECURSIVE InsertNear(_, _, _)
InsertNear(c, s, dist) ==
    IF s = <<>> THEN <<c>>
    ELSE IF dist[Head(s)] <= dist[c] THEN <<Head(s)>> \o InsertNear(c, Tail(s), dist)
    ELSE <<c>> \o s

RECURSIVE NearPrefix(_, _, _)
NearPrefix(store, n, dist) ==
    IF n = 0 THEN <<>> ELSE InsertNear(store[n], NearPrefix(store, n - 1, dist), dist)

collection_query(store, dist, n) ==
    LET ids == Prefix(NearPrefix(store, Len(store), dist), n)
    IN  [i \in 1..Len(ids) |-> [id |-> ids[i], distance |-> dist[ids[i]]]]

\* HybridSearch._vector_search, given what collection.query returned
_vector_search(nearest) ==
    IF nearest = <<>> THEN <<>>
    ELSE LET similarities == [i \in 1..Len(nearest) |-> 1 - nearest[i].distance]
             norm_scores == _normalize_scores(similarities)
         IN  [i \in 1..Len(nearest) |->
                 [chunk_id |-> nearest[i].id, score |-> norm_scores[i],
                  metadata |-> MetaOf(nearest[i].id)]]

\* HybridSearch._bm25_search once the index exists: corpus_ids is
\* self._corpus_ids and raw_scores what BM25Okapi.get_scores returned
bm25_rank(corpus_ids, raw_scores, k) ==
    LET top_indices == Prefix(Reverse(argsort(raw_scores)), k)
        scores_for_top == [i \in 1..Len(top_indices) |-> raw_scores[top_indices[i]]]
        norm_scores == _normalize_scores(scores_for_top)
    IN  [i \in 1..Len(top_indices) |->
            [chunk_id |-> corpus_ids[top_indices[i]], score |-> norm_scores[i],
             metadata |-> MetaOf(corpus_ids[top_indices[i]])]]

\* ------------------------------------------------------------------ fusion
HasId(s, id) == \E i \in 1..Len(s) : s[i].chunk_id = id
IndexOfId(s, id) == CHOOSE i \in 1..Len(s) : s[i].chunk_id = id

\* HybridSearch.search, first loop: score_map[r.chunk_id] = {...}
RECURSIVE PutVector(_, _)
PutVector(vector_results, n) ==
    IF n = 0 THEN <<>>
    ELSE LET m == PutVector(vector_results, n - 1)
             r == vector_results[n]
             e == [chunk_id |-> r.chunk_id, metadata |-> r.metadata,
                   vector_score |-> r.score, bm25_score |-> 0]
         IN  IF HasId(m, r.chunk_id)
             THEN [m EXCEPT ![IndexOfId(m, r.chunk_id)] = e]
             ELSE Append(m, e)

\* HybridSearch.search, second loop over bm25_results
RECURSIVE PutBm25(_, _, _)
PutBm25(m0, bm25_results, n) ==
    IF n = 0 THEN m0
    ELSE LET m == PutBm25(m0, bm25_results, n - 1)
             r == bm25_results[n]
         IN  IF HasId(m, r.chunk_id)
             THEN [m EXCEPT ![IndexOfId(m, r.chunk_id)].bm25_score = r.score]
             ELSE Append(m, [chunk_id |-> r.chunk_id, metadata |-> r.metadata,
                             vector_score |-> 0, bm25_score |-> r.score])

\* the weight applied to the lexical score instead of the vector score
fuse_swapped(vector_results, bm25_results, alpha, k) ==
    LET score_map == PutBm25(PutVector(vector_results, Len(vector_results)),
                             bm25_results, Len(bm25_results))
        combined == [i \in 1..Len(score_map) |->
                        [chunk_id |-> score_map[i].chunk_id,
                         score |-> alpha * score_map[i].bm25_score
                                   + (AlphaDen - alpha) * score_map[i].vector_score,
                         metadata |-> score_map[i].metadata]]
    IN  Prefix(SortByScoreDesc(combined), k)

\* HybridSearch.search from the merge on: combined scores, sort, combined[:k]
fuse(vector_results, bm25_results, alpha, k) ==
    LET score_map == PutBm25(PutVector(vector_results, Len(vector_results)),
                             bm25_results, Len(bm25_results))
        combined == [i \in 1..Len(score_map) |->
                        [chunk_id |-> score_map[i].chunk_id,
                         score |-> alpha * score_map[i].vector_score
                                   + (AlphaDen - alpha) * score_map[i].bm25_score,
                         metadata |-> score_map[i].metadata]]
    IN  Prefix(SortByScoreDesc(combined), k)

\* HybridSearch.search over the child collection store, dist the distance of
\* each chunk to the query, corpus_ids the BM25 index (<<>> when none could
\* be built) and raw_scores what get_scores returned
search(store, dist, corpus_ids, raw_scores, alpha, k0) ==
    LET k == EffK(k0)
        fetch_k == k * 3
        vector_results == _vector_search(collection_query(store, dist, fetch_k))
        bm25_results == IF corpus_ids = <<>> THEN <<>>
                        ELSE bm25_rank(corpus_ids, raw_scores, fetch_k)
    IN  fuse(vector_results, bm25_results, alpha, k)

\* --------------------------------------- Retriever.retrieve: the merge loop
\* the last variant's score wins
RECURSIVE merge_results_last(_, _, _)
merge_results_last(all_results, rs, n) ==
    IF n = 0 THEN all_results
    ELSE LET m == merge_results_last(all_results, rs, n - 1)
             r == rs[n]
         IN  IF ~HasId(m, r.chunk_id) THEN Append(m, r)
             ELSE [m EXCEPT ![IndexOfId(m, r.chunk_id)] = r]

\* the first variant's score wins
RECURSIVE merge_results_first(_, _, _)
merge_results_first(all_results, rs, n) ==
    IF n = 0 THEN all_results
    ELSE LET m == merge_results_first(all_results, rs, n - 1)
             r == rs[n]
         IN  IF ~HasId(m, r.chunk_id) THEN Append(m, r) ELSE m

\* the inner loop of step 2 for one query variant: keep r when its id is new
\* or its score is strictly greater than the kept one
RECURSIVE merge_results(_, _, _)
merge_results(all_results, rs, n) ==
    IF n = 0 THEN all_results
    ELSE LET m == merge_results(all_results, rs, n - 1)
             r == rs[n]
         IN  IF ~HasId(m, r.chunk_id) THEN Append(m, r)
             ELSE IF r.score > m[IndexOfId(m, r.chunk_id)].score
                  THEN [m EXCEPT ![IndexOfId(m, r.chunk_id)] = r]
                  ELSE m

\* the outer loop of step 2 over the variants' result lists, in list order
RECURSIVE merge_all(_, _)
merge_all(hits, n) ==
    IF n = 0 THEN <<>>
    ELSE merge_results(merge_all(hits, n - 1), hits[n], Len(hits[n]))

\* the sort without reverse=True
sort_candidates_ascending(all_results) == Reverse(SortByScoreDesc(all_results))

\* candidates = sorted(all_results.values(), key=score, reverse=True)
sort_candidates(all_results) == SortByScoreDesc(all_results)

\* -------------------------------------------------------------------- text
\* a string is a sequence of characters; "zh" and "ya" stand for two
\* Cyrillic letters
LatinLower == {"a", "b"}
LatinUpper == {"A"}
CyrillicChars == {"zh", "ya"}
Whitespace == {" ", "\n"}
EnumerationChars == {"0", "1", "2", "3", "4", "5", "6", "7", "8", "9", ".", "-", ")", " "}

\* the characters with c.isalpha()
isalpha == LatinLower \cup LatinUpper \cup CyrillicChars
\* the characters with c.isalpha() and ord(c) < 256
IsLatinAlpha == LatinLower \cup LatinUpper
\* the characters with "\u0400" <= c <= "\u04ff"
IsCyrillic == CyrillicChars

lower_char(c) == IF c = "A" THEN "a" ELSE c
\* str.lower
lower(s) == [i \in 1..Len(s) |-> lower_char(s[i])]

\* str.lstrip(chars)
RECURSIVE lstrip(_, _)
lstrip(s, chars) ==
    IF s # <<>> /\ Head(s) \in chars THEN lstrip(Tail(s), chars) ELSE s

\* str.rstrip(chars)
rstrip(s, chars) == Reverse(lstrip(Reverse(s), chars))

\* str.strip()
strip(s) == rstrip(lstrip(s, Whitespace), Whitespace)

\* str.split(sep) for a one-character separator: the fields between separators
RECURSIVE split_on(_, _, _, _)
split_on(s, sep, cur, acc) ==
    IF s = <<>> THEN Append(acc, cur)
    ELSE IF Head(s) = sep THEN split_on(Tail(s), sep, <<>>, Append(acc, cur))
    ELSE split_on(Tail(s), sep, Append(cur, Head(s)), acc)

\* str.split(): the maximal runs of non-whitespace characters
RECURSIVE split_ws(_, _, _)
split_ws(s, cur, acc) ==
    IF s = <<>> THEN (IF cur = <<>> THEN acc ELSE Append(acc, cur))
    ELSE IF Head(s) \in Whitespace
         THEN split_ws(Tail(s), <<>>, IF cur = <<>> THEN acc ELSE Append(acc, cur))
         ELSE split_ws(Tail(s), Append(cur, Head(s)), acc)

\* doc.lower().split() / query.lower().split()
tokenize(s) == split_ws(lower(s), <<>>, <<>>)

\* sum(1 for c in s if <c is one of chars>)
Count(s, chars) == Cardinality({i \in 1..Len(s) : s[i] \in chars})

\* Chunk.text of the child chunks
TextOf(c) ==
    CASE c = "c1" -> <<"a", " ", "b">>
      [] c = "c2" -> <<"b", " ", "A">>
      [] c = "c3" -> <<"zh", " ", "ya">>
      [] OTHER    -> <<"ya">>

\* ---------------------------------------------------------------- reranker
\* what the FlashRank model does with a request: fail while loading, fail
\* while scoring, or return the passages re-scored and sorted best first
RankerOutcomes == {"load_fails", "score_fails", "keeps_order", "reverses_order"}

\* ranker.rerank(request): the passages best first with the model's scores
ranker_rerank(results, outcome) ==
    LET order == IF outcome = "reverses_order" THEN Reverse(results) ELSE results
    IN  [i \in 1..Len(order) |-> [order[i] EXCEPT !.score = Len(order) + 1 - i]]

\* `top_n or self.top_n`
EffTopN(top_n) == IF top_n = 0 THEN RERANKER_TOP_N ELSE top_n

\* the fallback without the truncation
rerank_fallback_all(results, top_n) == results

\* the except branch of ReRanker.rerank: results[:top_n]
rerank_fallback(results, top_n) == Prefix(results, top_n)

\* the call that loads the model returns the candidates as they came
rerank_cold(loaded, results, top_n0, outcome) ==
    LET top_n == EffTopN(top_n0)
    IN  IF results = <<>> THEN [out |-> <<>>, loaded |-> loaded, failed |-> FALSE]
        ELSE IF ~loaded /\ outcome = "load_fails"
             THEN [out |-> rerank_fallback(results, top_n), loaded |-> FALSE,
                   failed |-> TRUE]
        ELSE IF outcome = "score_fails"
             THEN [out |-> rerank_fallback(results, top_n), loaded |-> TRUE,
                   failed |-> TRUE]
        ELSE IF ~loaded
             THEN [out |-> Prefix(results, top_n), loaded |-> TRUE, failed |-> FALSE]
        ELSE [out |-> Prefix(ranker_rerank(results, outcome), top_n),
              loaded |-> TRUE, failed |-> FALSE]

\* ReRanker.rerank: loaded is whether self._ranker is set; the value is the
\* returned list and whether the model is loaded afterwards
rerank(loaded, results, top_n0, outcome) ==
    LET top_n == EffTopN(top_n0)
    IN  IF results = <<>> THEN [out |-> <<>>, loaded |-> loaded, failed |-> FALSE]
        ELSE IF ~loaded /\ outcome = "load_fails"
             THEN [out |-> rerank_fallback(results, top_n), loaded |-> FALSE,
                   failed |-> TRUE]
        ELSE IF outcome = "score_fails"
             THEN [out |-> rerank_fallback(results, top_n), loaded |-> TRUE,
                   failed |-> TRUE]
        ELSE [out |-> Prefix(ranker_rerank(results, outcome), top_n),
              loaded |-> TRUE, failed |-> FALSE]

\* ---------------------------------------------------- external collaborators
\* BM25Okapi.get_scores stands for the rank_bm25 library: the score of a
\* document grows with the occurrences of the query's tokens in it and is 0
\* when none of them occurs
RECURSIVE Occurrences(_, _)
Occurrences(tok, doc_tokens) ==
    IF doc_tokens = <<>> THEN 0
    ELSE (IF Head(doc_tokens) = tok THEN 1 ELSE 0) + Occurrences(tok, Tail(doc_tokens))

RECURSIVE SumOccurrences(_, _)
SumOccurrences(query_tokens, doc_tokens) ==
    IF query_tokens = <<>> THEN 0
    ELSE Occurrences(Head(query_tokens), doc_tokens)
         + SumOccurrences(Tail(query_tokens), doc_tokens)

get_scores(corpus_ids, query) ==
    [i \in 1..Len(corpus_ids) |->
        Min2(MaxRaw, SumOccurrences(tokenize(query), tokenize(TextOf(corpus_ids[i]))))]

\* embed_query and the store's cosine distance stand for the embedding
\* model: texts sharing a token are nearest, texts in different scripts farthest
Distance(query, c) ==
    IF SumOccurrences(tokenize(query), tokenize(TextOf(c))) > 0 THEN 0
    ELSE IF (Count(query, IsCyrillic) > 0) = (Count(TextOf(c), IsCyrillic) > 0) THEN 1
    ELSE MaxDistance

\* ------------------------------------------------------- query expansion
None == "<None>"

\* what one chat completion can do: fail, or answer with one of these texts
HydeAnswers == {"fails", "empty", "passage"}
MultiAnswers == {"fails", "empty", "list"}
TranslateAnswers == {"fails", "empty", "text"}
DetectAnswers == {"fails", "", "English", "Russian", "russian"}

HydePassage == <<"b", " ", "A">>
MultiList == <<"1", ".", " ", "b", "\n", "\n", "-", " ", "ya", " ">>
Translation == <<" ", "a", " ", "b", "\n">>

\* QueryExpander.hyde: `response.choices[0].message.content or ""`
hyde(query, answer) == IF answer = "passage" THEN HydePassage ELSE <<>>

\* the cut to three lines made before the blank lines are dropped
parse_multi_query_cut_first(text) ==
    LET lines == split_on(strip(text), "\n", <<>>, <<>>)
        kept == SelectSeq(Prefix(lines, 3), LAMBDA q : strip(q) # <<>>)
        queries == [i \in 1..Len(kept) |-> lstrip(strip(kept[i]), EnumerationChars)]
    IN  queries

\* QueryExpander.multi_query, given the completion's text
parse_multi_query(text) ==
    LET lines == split_on(strip(text), "\n", <<>>, <<>>)
        kept == SelectSeq(lines, LAMBDA q : strip(q) # <<>>)
        queries == [i \in 1..Len(kept) |-> lstrip(strip(kept[i]), EnumerationChars)]
    IN  Prefix(queries, 3)

multi_query(query, answer) ==
    parse_multi_query(IF answer = "list" THEN MultiList ELSE <<>>)

\* QueryExpander.translate_query: `content or query`, stripped
translate_query(query, target_language, answer) ==
    strip(IF answer = "text" THEN Translation ELSE query)

\* QueryExpander.expand, no completion failing
expand(query, use_hyde, use_multi, hyde_answer, multi_answer) ==
    <<query>>
    \o (IF use_hyde THEN <<hyde(query, hyde_answer)>> ELSE <<>>)
    \o (IF use_multi THEN multi_query(query, multi_answer) ELSE <<>>)

\* the first completion of QueryExpander.expand that raises, if any
expand_raises(use_hyde, use_multi, hyde_answer, multi_answer) ==
    IF use_hyde /\ hyde_answer = "fails" THEN "hyde"
    ELSE IF use_multi /\ multi_answer = "fails" THEN "multi_query"
    ELSE None

\* ------------------------------------------------------ language detection
lang_lower(l) ==
    CASE l = "Russian" -> "russian" [] l = "English" -> "english" [] OTHER -> l

\* Retriever._detect_query_language
_detect_query_language(query) ==
    LET cyrillic == Count(query, IsCyrillic)
        latin == Count(query, IsLatinAlpha)
    IN  IF cyrillic > latin THEN "Russian" ELSE None

\* Retriever._detect_doc_language: coll is the child collection, answer what
\* the detection completion does; every failure is caught and gives None
_detect_doc_language(coll, has_expander, answer) ==
    IF coll = <<>> THEN None
    ELSE LET text == Prefix(TextOf(coll[1]), 200)
             total_alpha == Count(text, isalpha)
         IN  IF total_alpha = 0 THEN None
             ELSE IF ~has_expander THEN None
             ELSE IF answer = "fails" THEN None
             ELSE answer

\* `if doc_lang and doc_lang.lower() != query_lang.lower()`
needs_translation(doc_lang, query_lang) ==
    /\ doc_lang # None /\ doc_lang # ""
    /\ lang_lower(doc_lang) # lang_lower(query_lang)

\* ------------------------------------------------------------ parent store
\* the collection created anew, without what it held
get_or_create_collection_anew(stored) == {}

\* get_or_create_collection on the persistent client: what the collection
\* holds afterwards is what it held (nothing when it did not exist)
get_or_create_collection(stored) == stored

ParentTextOf(pid) == <<pid>>

\* an entry for every referenced parent id, empty when the store has none
_get_parent_context_all(results, parents, failing) ==
    LET parent_ids == {results[i].metadata.parent_id : i \in 1..Len(results)} \ {None}
    IN  [pid \in parent_ids \ failing |->
            IF pid \in parents THEN ParentTextOf(pid) ELSE <<>>]

\* Retriever._get_parent_context: parents is the parent collection, failing
\* the parent ids whose lookup raises (and is skipped)
_get_parent_context(results, parents, failing) ==
    LET parent_ids == {results[i].metadata.parent_id : i \in 1..Len(results)} \ {None}
        found == (parent_ids \cap parents) \ failing
    IN  [pid \in found |-> ParentTextOf(pid)]

\* ----------------------------------------------------------- lexical index
\* the build without the empty-collection guard: BM25Okapi fails on no documents
_build_bm25_index_unguarded(coll) ==
    IF coll = <<>> THEN [raises |-> TRUE, ids |-> <<>>]
    ELSE [raises |-> FALSE, ids |-> coll]

\* HybridSearch._build_bm25_index on what collection.get returned: ids is
\* the new self._corpus_ids, the empty sequence when self._bm25 stays None
_build_bm25_index(coll) ==
    IF coll = <<>> THEN [raises |-> FALSE, ids |-> <<>>]
    ELSE [raises |-> FALSE, ids |-> coll]

\* the index rebuilt by every query
index_for_query_rebuilt(_bm25, coll) == _build_bm25_index(coll)

\* HybridSearch._bm25_search, the lazy build: the index the query is
\* answered from
index_for_query(_bm25, coll) ==
    IF _bm25 = <<>> THEN _build_bm25_index(coll) ELSE [raises |-> FALSE, ids |-> _bm25]

\* ----------------------------------------------------------------- state
VARIABLES
    collection,         \* the child collection: chunk ids in insertion order
    parent_collection,  \* the ids stored in the "legalmind_parents" collection
    ingest,             \* the embed_and_store call in progress
    retriever,          \* the attributes of the current Retriever object
    call,               \* the live locals of the retrieve call in progress, and
                        \* the files whose ingestion had completed when it
                        \* began and the chunk ids its searches returned
    event,              \* what the step just taken did, as its caller sees it
    bm25_built,         \* whether a BM25 index has been built since the process started
    rr,                 \* one ReRanker.rerank call on drawn inputs
    fusion,             \* one HybridSearch.search call on drawn collaborator outputs
    merge,              \* one run of the merge loop on drawn per-variant results
    previous,           \* what the retrieve call before this one returned
    unit                \* one call of a pure function on drawn inputs

vars == <<collection, parent_collection, ingest, retriever, call, event,
          bm25_built, rr, fusion, merge, previous, unit>>

pipeline == <<collection, parent_collection, ingest, retriever, call, event,
              bm25_built, previous>>

NoFusion == [pc |-> "off"]
NoMerge == [pc |-> "off"]
NoRerank == [pc |-> "off"]
NoUnit == [pc |-> "off"]
NoPrevious == [on |-> FALSE]

IdleIngest == [pc |-> "idle", doc |-> None, i |-> 0, total_stored |-> 0]

NoRetriever == [exists |-> FALSE, use_query_expansion |-> FALSE, reranker |-> FALSE,
                query_expander |-> FALSE, use_query_translation |-> FALSE,
                _bm25 |-> <<>>, _ranker |-> FALSE]

IdleCall == [pc |-> "idle", query |-> <<>>, k |-> 0, use_hyde |-> FALSE,
             use_multi_query |-> FALSE, search_query |-> <<>>, queries |-> <<>>,
             qi |-> 0, all_results |-> <<>>, candidates |-> <<>>,
             total_candidates |-> 0, results |-> <<>>, ranked_by |-> "none",
             hit_ids |-> {}, ingested |-> {}]

NoEvent == [kind |-> "none"]
IngestEvent == [kind |-> "ingest"]

PipelineOff ==
    /\ collection = <<>> /\ parent_collection = {} /\ ingest = IdleIngest
    /\ retriever = NoRetriever /\ call = IdleCall
    /\ event = NoEvent /\ bm25_built = FALSE /\ previous = NoPrevious

\* ------------------------------------------- specification of the fusion
Alphas == {0, HYBRID_ALPHA, AlphaDen}        \* alpha = 0, 0.6 and 1
FullStore == <<"c1", "c2", "c3", "c4">>

FusionInit ==
    /\ fusion \in [pc : {"ready"}, dist : [Chunks -> 0..MaxDistance],
                   raw : [Chunks -> 0..MaxRaw], alpha : Alphas, k : 0..MaxK,
                   vector_results : {<<>>}, bm25_results : {<<>>}, out : {<<>>}]
    /\ merge = NoMerge /\ rr = NoRerank /\ unit = NoUnit /\ PipelineOff

\* hs.search(query, k) with self.alpha = alpha over the full store
FusionSearch ==
    /\ fusion.pc = "ready"
    /\ LET fetch_k == EffK(fusion.k) * 3
           nearest == collection_query(FullStore, fusion.dist, fetch_k)
           raw_scores == [i \in 1..Len(FullStore) |-> fusion.raw[FullStore[i]]]
       IN  fusion' = [fusion EXCEPT
               !.pc = "done",
               !.vector_results = _vector_search(nearest),
               !.bm25_results = bm25_rank(FullStore, raw_scores, fetch_k),
               !.out = search(FullStore, fusion.dist, FullStore, raw_scores,
                             fusion.alpha, fusion.k)]
    /\ UNCHANGED <<merge, rr, unit, pipeline>>

FusionNext == FusionSearch

SpecFusion == FusionInit /\ [][FusionNext]_vars

\* -------------------------------------------- specification of the merge
MaxVariants == 2     \* the query list holds 1..MaxVariants variants
MergeIds == {"c1", "c2", "c3"}
MergeScores == {4, 18}

\* what one HybridSearch.search call can return: distinct ids, best first
HitLists ==
    {<<>>}
    \cup {<<[chunk_id |-> c, score |-> x, metadata |-> MetaOf(c)]>> :
             c \in MergeIds, x \in MergeScores}
    \cup {<<[chunk_id |-> c[1], score |-> x[1], metadata |-> MetaOf(c[1])],
            [chunk_id |-> c[2], score |-> x[2], metadata |-> MetaOf(c[2])]>> :
             c \in {d \in MergeIds \X MergeIds : d[1] # d[2]},
             x \in {y \in MergeScores \X MergeScores : y[1] >= y[2]}}

Perms(n) == {f \in [1..n -> 1..n] : \A i, j \in 1..n : f[i] = f[j] => i = j}

MergeInit ==
    /\ \E n \in 1..MaxVariants :
           merge \in [pc : {"ready"}, hits : [1..n -> HitLists], order : Perms(n),
                      candidates : {<<>>}]
    /\ fusion = NoFusion /\ rr = NoRerank /\ unit = NoUnit /\ PipelineOff

\* step 2 of retrieve with the variants searched in the order merge.order
MergeRun ==
    /\ merge.pc = "ready"
    /\ LET n == Len(merge.hits)
           permuted == [i \in 1..n |-> merge.hits[merge.order[i]]]
       IN  merge' = [merge EXCEPT !.pc = "done",
                                  !.candidates = sort_candidates(merge_all(permuted, n))]
    /\ UNCHANGED <<fusion, rr, unit, pipeline>>

MergeNext == MergeRun

SpecMerge == MergeInit /\ [][MergeNext]_vars

\* ------------------------------------------ specification of the reranker
\* candidate lists of one to three distinct chunks, best first
RerankInputs ==
    (HitLists \ {<<>>})
    \cup {<<[chunk_id |-> c[1], score |-> x[1], metadata |-> MetaOf(c[1])],
            [chunk_id |-> c[2], score |-> x[2], metadata |-> MetaOf(c[2])],
            [chunk_id |-> c[3], score |-> x[3], metadata |-> MetaOf(c[3])]>> :
             c \in {d \in MergeIds \X MergeIds \X MergeIds :
                       d[1] # d[2] /\ d[1] # d[3] /\ d[2] # d[3]},
             x \in {y \in MergeScores \X MergeScores \X MergeScores :
                       y[1] >= y[2] /\ y[2] >= y[3]}}

RerankInit ==
    /\ rr \in [pc : {"ready"}, results : RerankInputs, top_n : 0..MaxK,
               loaded : BOOLEAN, outcome : RankerOutcomes,
               out : {<<>>}, failed : {FALSE}]
    /\ fusion = NoFusion /\ merge = NoMerge /\ unit = NoUnit /\ PipelineOff

\* reranker.rerank(query, results, top_n)
RerankCall ==
    /\ rr.pc = "ready"
    /\ LET r == rerank(rr.loaded, rr.results, rr.top_n, rr.outcome)
       IN  rr' = [rr EXCEPT !.pc = "done", !.out = r.out, !.loaded = r.loaded,
                            !.failed = r.failed]
    /\ UNCHANGED <<fusion, merge, unit, pipeline>>

RerankNext == RerankCall

SpecRerank == RerankInit /\ [][RerankNext]_vars

\* ---------------------------------------- specification of the pipeline
MaxCallK == 1        \* retrieve is called with k in 0..MaxCallK
UserQueries == {<<"a">>, <<"zh", " ", "ya">>}

\* the stores a retrieve call can find: what completed and failed ingestions
\* leave behind (no file, d1, d1 without its parents, both files in either
\* order)
Stores ==
    {[children |-> <<>>, parents |-> {}],
     [children |-> ChildrenOf("d1"), parents |-> Range(ParentsOf("d1"))],
     [children |-> ChildrenOf("d1"), parents |-> {}],
     [children |-> ChildrenOf("d1") \o ChildrenOf("d2"), parents |-> Parents],
     [children |-> ChildrenOf("d2") \o ChildrenOf("d1"), parents |-> Parents]}

\* a started process, no Retriever constructed yet, over one of the stores
Init ==
    /\ \E s \in Stores : collection = s.children /\ parent_collection = s.parents
    /\ ingest = IdleIngest /\ retriever = NoRetriever /\ call = IdleCall
    /\ event = NoEvent /\ bm25_built = FALSE
    /\ previous = NoPrevious /\ unit = NoUnit
    /\ fusion = NoFusion /\ merge = NoMerge /\ rr = NoRerank

others == <<rr, fusion, merge, unit>>

\* the files whose embed_and_store has stored its parents and returned
Completed == {d \in Docs : Range(ParentsOf(d)) \subseteq parent_collection}

\* Retriever(use_reranking, use_query_expansion, use_query_translation)
Construct(use_reranking, use_query_expansion, use_query_translation) ==
    /\ call.pc = "idle"
    /\ retriever' = [exists |-> TRUE,
                     use_query_expansion |-> use_query_expansion,
                     reranker |-> use_reranking,
                     query_expander |-> (use_query_expansion \/ use_query_translation),
                     use_query_translation |-> use_query_translation,
                     _bm25 |-> <<>>, _ranker |-> FALSE]
    /\ event' = [kind |-> "constructed"]
    /\ UNCHANGED <<collection, parent_collection, ingest, call, bm25_built,
                   others, previous>>

\* retriever.retrieve(query, k, use_hyde, use_multi_query) is entered
Retrieve(query, k, use_hyde, use_multi_query) ==
    /\ call.pc = "idle"
    /\ retriever.exists
    /\ call' = [IdleCall EXCEPT !.pc = "translate", !.query = query, !.k = EffK(k),
                                !.use_hyde = use_hyde,
                                !.use_multi_query = use_multi_query,
                                !.search_query = query, !.ingested = Completed]
    /\ event' = [kind |-> "called"]
    /\ UNCHANGED <<collection, parent_collection, ingest, retriever, bm25_built,
                   others, previous>>

\* the exception leaves retrieve: no RetrievalResult is returned
Raised(by) ==
    /\ event' = [kind |-> "raised", raised_by |-> by, query |-> call.query,
                 empty_corpus |-> (collection = <<>>)]
    /\ call' = IdleCall

\* step 0 of retrieve: cross-language query translation
Translate ==
    /\ call.pc = "translate"
    /\ LET enabled == retriever.use_query_translation /\ retriever.query_expander
           query_lang == IF enabled THEN _detect_query_language(call.query) ELSE None
           detecting == enabled /\ query_lang # None
       IN
       \E detect \in (IF detecting THEN DetectAnswers ELSE {""}) :
       \E answer \in (IF detecting
                      /\ needs_translation(_detect_doc_language(collection,
                              retriever.query_expander, detect), query_lang)
                      THEN TranslateAnswers ELSE {"empty"}) :
        LET doc_lang == IF enabled /\ query_lang # None
                        THEN _detect_doc_language(collection, retriever.query_expander,
                                                  detect)
                        ELSE None
            translating == enabled /\ query_lang # None
                           /\ needs_translation(doc_lang, query_lang)
        IN  IF translating /\ answer = "fails"
            THEN Raised("translate")
            ELSE /\ call' = [call EXCEPT
                        !.pc = "expand",
                        !.search_query = IF translating
                                         THEN translate_query(call.query, doc_lang, answer)
                                         ELSE call.query]
                 /\ event' = [kind |-> "translated", enabled |-> enabled,
                              detect_failed |-> (enabled /\ query_lang # None
                                                 /\ detect = "fails"),
                              translated |-> translating]
    /\ UNCHANGED <<collection, parent_collection, ingest, retriever, bm25_built,
                   others, previous>>

\* step 1 of retrieve: query expansion
Expand ==
    /\ call.pc = "expand"
    /\ LET expanding == retriever.query_expander
                        /\ (call.use_hyde \/ call.use_multi_query)
       IN
       \E hyde_answer \in (IF expanding /\ call.use_hyde THEN HydeAnswers ELSE {"empty"}) :
       \E multi_answer \in (IF expanding /\ call.use_multi_query /\ hyde_answer # "fails"
                            THEN MultiAnswers ELSE {"empty"}) :
        LET raises == IF expanding
                      THEN expand_raises(call.use_hyde, call.use_multi_query,
                                         hyde_answer, multi_answer)
                      ELSE None
            queries == IF expanding
                       THEN expand(call.search_query, call.use_hyde,
                                   call.use_multi_query, hyde_answer, multi_answer)
                       ELSE <<call.search_query>>
        IN  IF raises # None
            THEN Raised(raises)
            ELSE /\ call' = [call EXCEPT !.pc = "search", !.qi = 1, !.queries = queries,
                                         !.use_hyde = FALSE, !.use_multi_query = FALSE,
                                         !.search_query = <<>>]
                 /\ event' = [kind |-> "expanded", expanding |-> expanding,
                              search_query |-> call.search_query, queries |-> queries,
                              use_hyde |-> call.use_hyde,
                              use_multi_query |-> call.use_multi_query]
    /\ UNCHANGED <<collection, parent_collection, ingest, retriever, bm25_built,
                   others, previous>>

\* the loop left after its first turn
after_search_first(qi, queries) == "rank"

\* `for q in queries`: the step after the search of queries[qi]
after_search(qi, queries) == IF qi = Len(queries) THEN "rank" ELSE "search"

\* step 2 of retrieve, one turn of the loop: hybrid_search.search(q, k * 2)
\* and the merge of its results.  The vector search fails when embed_query
\* or collection.query raises, the lexical search when the collection.get of
\* the index build raises; a cached index is searched without the store
Search ==
    /\ call.pc = "search"
    /\ \E outcome \in {"ok", "vector_fails"}
                      \cup (IF retriever._bm25 = <<>> THEN {"lexical_fails"} ELSE {}) :
        LET q == call.queries[call.qi]
            dist == [c \in Chunks |-> Distance(q, c)]
            index == index_for_query(retriever._bm25, collection)
            hits == search(collection, dist, index.ids, get_scores(index.ids, q),
                           HYBRID_ALPHA, call.k * 2)
            last == call.qi = Len(call.queries)
        IN  IF outcome = "vector_fails"
            THEN /\ Raised("vector")
                 /\ UNCHANGED <<retriever, bm25_built>>
            ELSE IF outcome = "lexical_fails"
            THEN /\ Raised("lexical")
                 /\ UNCHANGED <<retriever, bm25_built>>
            ELSE IF index.raises
            THEN /\ Raised("bm25_build")
                 /\ UNCHANGED <<retriever, bm25_built>>
            ELSE /\ retriever' = [retriever EXCEPT !._bm25 = index.ids]
                 /\ bm25_built' = (bm25_built \/ index.ids # <<>>)
                 /\ event' = [kind |-> "searched", corpus_ids |-> index.ids,
                              cached |-> (retriever._bm25 # <<>>),
                              built |-> (retriever._bm25 = <<>> /\ index.ids # <<>>),
                              built_before |-> bm25_built,
                              ingested |-> call.ingested, hits |-> hits]
                 /\ call' = [call EXCEPT
                        !.all_results = merge_results(call.all_results, hits, Len(hits)),
                        !.hit_ids = call.hit_ids
                                    \cup {hits[i].chunk_id : i \in 1..Len(hits)},
                        !.qi = call.qi + 1,
                        !.ingested = IF last THEN {} ELSE call.ingested,
                        !.pc = after_search(call.qi, call.queries)]
    /\ UNCHANGED <<collection, parent_collection, ingest, others, previous>>

\* the reranker handed the query that was searched for
rerank_argument_searched(query, queries) == queries[1]

\* the first argument of self.reranker.rerank: retrieve's own `query`
rerank_argument(query, queries) == query

\* steps 2 (the sort) and 3 of retrieve: candidates, total_candidates, rerank
Rank ==
    /\ call.pc = "rank"
    /\ LET candidates == sort_candidates(call.all_results)
           reranking == retriever.reranker /\ candidates # <<>>
       IN
       \E outcome \in (IF reranking THEN RankerOutcomes ELSE {"keeps_order"}) :
        LET r == rerank(retriever._ranker, candidates, call.k, outcome)
        IN  /\ call' = [call EXCEPT
                   !.pc = "parent", !.candidates = candidates, !.all_results = <<>>,
                   !.total_candidates = Len(candidates),
                   !.results = IF reranking THEN r.out ELSE Prefix(candidates, call.k),
                   !.ranked_by = IF ~reranking THEN "none"
                                 ELSE IF r.failed THEN "fallback"
                                 ELSE IF outcome = "reverses_order" THEN outcome
                                 ELSE "keeps_order"]
            /\ retriever' = IF reranking THEN [retriever EXCEPT !._ranker = r.loaded]
                            ELSE retriever
            /\ event' = [kind |-> "ranked", reranked |-> reranking,
                         rerank_query |-> IF reranking
                                         THEN rerank_argument(call.query, call.queries)
                                         ELSE None,
                         top_n |-> call.k,
                         rerank_failed |-> (reranking /\ r.failed)]
    /\ UNCHANGED <<collection, parent_collection, ingest, bm25_built, others, previous>>

\* the parent lookups that raise during one _get_parent_context: none or one
FailingSets(parent_ids) == {{}} \cup {{pid} : pid \in parent_ids}

\* step 4 of retrieve and the return of the RetrievalResult
ParentContext ==
    /\ call.pc = "parent"
    /\ \E failing \in FailingSets({call.results[i].metadata.parent_id :
                                         i \in 1..Len(call.results)}) :
        /\ event' = [kind |-> "returned", query |-> call.query, k |-> call.k,
                     empty_corpus |-> (collection = <<>>),
                     results |-> call.results, expanded_queries |-> call.queries,
                     total_candidates |-> call.total_candidates,
                     candidates |-> call.candidates,
                     ranked_by |-> call.ranked_by, previous |-> previous,
                     hit_ids |-> call.hit_ids,
                     parent_context |-> _get_parent_context(call.results,
                                                            parent_collection, failing)]
        /\ previous' = IF previous.on
                       THEN [previous EXCEPT !.seen = TRUE,
                                             !.expanded_queries = call.queries,
                                             !.ranked_by = call.ranked_by,
                                             !.results = call.results]
                       ELSE previous
        /\ call' = IdleCall
    /\ parent_collection' =
            IF \E i \in 1..Len(call.results) : call.results[i].metadata.parent_id # None
            THEN get_or_create_collection(parent_collection)
            ELSE parent_collection
    /\ UNCHANGED <<collection, ingest, retriever, bm25_built, others>>

\* embed_and_store(chunked_doc) up to the first batch: the duplicate check
IngestStart(d) ==
    /\ ingest.pc = "idle"
    /\ LET existing == {i \in 1..Len(collection) : FilenameOf(collection[i]) = d}
       IN  IF existing # {} \/ ChildrenOf(d) = <<>>
           THEN ingest' = IdleIngest
           ELSE ingest' = [IdleIngest EXCEPT !.pc = "embed", !.doc = d]
    /\ event' = IngestEvent
    /\ UNCHANGED <<collection, parent_collection, retriever, call, bm25_built,
                   others, previous>>

\* one turn of the batch loop: embed_documents and collection.add
IngestBatch ==
    /\ ingest.pc = "embed"
    /\ \E ok \in BOOLEAN :
        LET ids == ChildrenOf(ingest.doc)
            batch_ids == SubSeq(ids, ingest.i + 1, Min2(ingest.i + batch_size, Len(ids)))
        IN  IF ~ok
            THEN /\ ingest' = IdleIngest
                 /\ UNCHANGED collection
            ELSE /\ collection' = collection \o batch_ids
                 /\ ingest' = [ingest EXCEPT
                        !.i = ingest.i + batch_size,
                        !.total_stored = ingest.total_stored + Len(batch_ids),
                        !.pc = IF ingest.i + batch_size >= Len(ids)
                               THEN "parents" ELSE "embed"]
    /\ event' = IngestEvent
    /\ UNCHANGED <<parent_collection, retriever, call, bm25_built, others, previous>>

\* the parent chunks are stored and embed_and_store returns total_stored
IngestParents ==
    /\ ingest.pc = "parents"
    /\ \E ok \in BOOLEAN :
        IF ~ok
        THEN UNCHANGED parent_collection
        ELSE parent_collection' = parent_collection \cup Range(ParentsOf(ingest.doc))
    /\ ingest' = IdleIngest
    /\ event' = IngestEvent
    /\ UNCHANGED <<collection, retriever, call, bm25_built, others, previous>>

\* retrieve calls, with every option and every collaborator answer, over a
\* store that no ingestion changes meanwhile
Next ==
    \/ \E a, b, c \in BOOLEAN : Construct(a, b, c)
    \/ \E q \in UserQueries, k \in 0..MaxCallK, h, m \in BOOLEAN : Retrieve(q, k, h, m)
    \/ Translate
    \/ Expand
    \/ Search
    \/ Rank
    \/ ParentContext

Spec == Init /\ [][Next]_vars

\* ------------------------ specification of ingestion beside the retrievals
IngestInit ==
    /\ PipelineOff
    /\ fusion = NoFusion /\ merge = NoMerge /\ rr = NoRerank /\ unit = NoUnit

\* embed_and_store calls interleaved with the steps of retrieve calls; the
\* Retriever is built as the orchestrator builds it or with every option off
IngestNext ==
    \/ \E a \in BOOLEAN : Construct(a, FALSE, a)
    \/ \E q \in UserQueries, k \in 0..MaxCallK : Retrieve(q, k, FALSE, FALSE)
    \/ Translate
    \/ Expand
    \/ Search
    \/ Rank
    \/ ParentContext
    \/ \E d \in Docs : IngestStart(d)
    \/ IngestBatch
    \/ IngestParents

SpecIngest == IngestInit /\ [][IngestNext]_vars

\* ------------------- specification of one retrieve call made again and again
\* one Retriever, one query and one set of arguments (with or without HyDE)
\* over a store that stays as it is, left by ingestions that completed;
\* `previous` keeps what the call before returned
TwiceInit ==
    /\ \E s \in {x \in Stores : x.children = <<>> \/ x.parents # {}} :
            collection = s.children /\ parent_collection = s.parents
    /\ ingest = IdleIngest /\ retriever = NoRetriever /\ call = IdleCall
    /\ event = NoEvent /\ bm25_built = FALSE
    /\ previous \in [on : {TRUE}, query : UserQueries, k : 0..MaxCallK,
                     use_hyde : BOOLEAN, use_multi_query : {FALSE},
                     seen : {FALSE}, expanded_queries : {<<>>},
                     ranked_by : {"none"}, results : {<<>>}]
    /\ unit = NoUnit /\ fusion = NoFusion /\ merge = NoMerge /\ rr = NoRerank

TwiceNext ==
    \/ \E a, b, c \in BOOLEAN : ~retriever.exists /\ Construct(a, b, c)
    \/ Retrieve(previous.query, previous.k, previous.use_hyde, previous.use_multi_query)
    \/ Translate
    \/ Expand
    \/ Search
    \/ Rank
    \/ ParentContext

SpecTwice == TwiceInit /\ [][TwiceNext]_vars

\* ------------------------------------------------------------ claim C5
FusedIds ==
    {fusion.vector_results[i].chunk_id : i \in 1..Len(fusion.vector_results)}
    \cup {fusion.bm25_results[i].chunk_id : i \in 1..Len(fusion.bm25_results)}

ScoreIn(s, id) == IF HasId(s, id) THEN s[IndexOfId(s, id)].score ELSE 0

RefScore(id) == fusion.alpha * ScoreIn(fusion.vector_results, id)
                + (AlphaDen - fusion.alpha) * ScoreIn(fusion.bm25_results, id)

InsertionPos(id) ==
    IF HasId(fusion.vector_results, id) THEN IndexOfId(fusion.vector_results, id)
    ELSE Len(fusion.vector_results) + IndexOfId(fusion.bm25_results, id)

RefBefore(a, b) ==
    \/ RefScore(a) > RefScore(b)
    \/ RefScore(a) = RefScore(b) /\ InsertionPos(a) < InsertionPos(b)

RefRank(id) == 1 + Cardinality({b \in FusedIds : RefBefore(b, id)})

MatchesReference(out, n) ==
    /\ Len(out) = Min2(n, Cardinality(FusedIds))
    /\ \A i \in 1..Len(out) :
           /\ out[i].chunk_id \in FusedIds
           /\ RefRank(out[i].chunk_id) = i
           /\ out[i].score = RefScore(out[i].chunk_id)

\* C5 as stated: for every k, search returns the first k entries of the
\* union by chunk id, scored alpha*vector + (1-alpha)*lexical with 0 for the
\* missing set, best first, ties in insertion order
C5_FusionFirstK == fusion.pc = "done" => MatchesReference(fusion.out, fusion.k)

\* C5, amended: the same for k >= 1; k = 0 (or None) returns the first
\* RETRIEVAL_TOP_K entries of that ranking
C5_FusionFirstEffK ==
    fusion.pc = "done" =>
        MatchesReference(fusion.out, IF fusion.k = 0 THEN RETRIEVAL_TOP_K ELSE fusion.k)

\* a vector hit is tied at the top with a lexical-only hit and k >= 1
C5_Witness ==
    /\ fusion.pc = "done" /\ fusion.k >= 1 /\ fusion.out # <<>>
    /\ HasId(fusion.vector_results, fusion.out[1].chunk_id)
    /\ \E id \in FusedIds : /\ ~HasId(fusion.vector_results, id)
                            /\ RefScore(id) = fusion.out[1].score

\* ------------------------------------------------------------ claim C4
MergedIds == UNION {{merge.hits[v][i].chunk_id : i \in 1..Len(merge.hits[v])} :
                       v \in 1..Len(merge.hits)}

ScoresOf(id) ==
    UNION {{merge.hits[v][i].score :
               i \in {j \in 1..Len(merge.hits[v]) : merge.hits[v][j].chunk_id = id}} :
              v \in 1..Len(merge.hits)}

MaxOf(S) == CHOOSE m \in S : \A x \in S : m >= x

\* C4: every chunk id some variant returned appears exactly once among the
\* merged candidates, with the maximum score it received over the variants
C4_MaxById ==
    merge.pc = "done" =>
        /\ \A i \in 1..Len(merge.candidates) : merge.candidates[i].chunk_id \in MergedIds
        /\ \A id \in MergedIds :
               /\ Cardinality({i \in 1..Len(merge.candidates) :
                                  merge.candidates[i].chunk_id = id}) = 1
               /\ ScoreIn(merge.candidates, id) = MaxOf(ScoresOf(id))

\* a chunk scored higher by the variant searched first than by a later one
C4_Witness ==
    /\ merge.pc = "done" /\ Len(merge.hits) >= 2
    /\ \E id \in MergedIds :
           /\ HasId(merge.hits[merge.order[1]], id)
           /\ HasId(merge.hits[merge.order[2]], id)
           /\ ScoreIn(merge.hits[merge.order[1]], id) > ScoreIn(merge.hits[merge.order[2]], id)

\* ----------------------------------------------------------- claim C10
InListOrder == sort_candidates(merge_all(merge.hits, Len(merge.hits)))

\* C10 as stated: the merged, sorted candidate list is the same for every
\* order of the variants' searches, ties between different chunks included
C10_OrderIndependent == merge.pc = "done" => merge.candidates = InListOrder

\* C10, amended: for every order the merged candidates are the same set of
\* (id, score) entries with the same sequence of scores; only different
\* chunks with equal merged scores may change places
C10_OrderIndependentUpToTies ==
    merge.pc = "done" =>
        /\ Range(merge.candidates) = Range(InListOrder)
        /\ Len(merge.candidates) = Len(InListOrder)
        /\ \A i \in 1..Len(merge.candidates) :
               merge.candidates[i].score = InListOrder[i].score
        /\ (\A i, j \in 1..Len(InListOrder) :
                i # j => InListOrder[i].score # InListOrder[j].score)
           => merge.candidates = InListOrder

\* the variants were searched in another order, a chunk got different scores
\* from two variants, and two different chunks tie in the merged list
C10_Witness ==
    /\ merge.pc = "done" /\ Len(merge.hits) >= 2
    /\ merge.order[1] # 1
    /\ \E id \in MergedIds : Cardinality(ScoresOf(id)) >= 2
    /\ \E i, j \in 1..Len(merge.candidates) :
           i # j /\ merge.candidates[i].score = merge.candidates[j].score
    /\ merge.candidates # InListOrder

\* ------------------------------------------------------------ claim C1
FirstOf(results, n, out) ==
    /\ Len(out) = Min2(n, Len(results))
    /\ \A i \in 1..Len(out) : out[i] = results[i]

\* C1 as stated: when the reranking model raises, rerank returns the first
\* top_n input candidates, in their order and with their scores, for every
\* top_n
C1_FallbackFirstTopN ==
    (rr.pc = "done" /\ rr.failed) => FirstOf(rr.results, rr.top_n, rr.out)

\* C1, amended: the same for top_n >= 1; top_n = 0 (or None) gives the first
\* RERANKER_TOP_N input candidates
C1_FallbackFirstEffTopN ==
    (rr.pc = "done" /\ rr.failed) =>
        FirstOf(rr.results, IF rr.top_n = 0 THEN RERANKER_TOP_N ELSE rr.top_n, rr.out)

\* the model raised on a list longer than the requested top_n >= 1
C1_Witness ==
    /\ rr.pc = "done" /\ rr.failed
    /\ rr.top_n >= 1 /\ Len(rr.results) > rr.top_n

\* ------------------------------------------------------------ claim C2
\* C2: expand returns the query first, and a failing HyDE or multi-query
\* completion adds no query and is not propagated out of retrieve
C2_ExpansionFailureAbsorbed ==
    /\ event.kind = "expanded" =>
           event.queries # <<>> /\ event.queries[1] = event.search_query
    /\ event.kind = "raised" => event.raised_by \notin {"hyde", "multi_query"}

\* ------------------------------------------------------------ claim C3
\* C3: a failure of the language detection or of the translation completion
\* does not leave retrieve; the search goes on with the untranslated query
C3_TranslationFailureAbsorbed ==
    /\ event.kind = "translated" /\ event.detect_failed =>
           ~event.translated /\ call.search_query = call.query
    /\ event.kind = "raised" => event.raised_by # "translate"

C7_QueryAfterIngestionSeesChunks ==
    event.kind = "searched" =>
        \A d \in event.ingested :
            Range(ChildrenOf(d)) \subseteq Range(event.corpus_ids)

\* ------------------------------------------------------------ claim C8
\* C8: with an empty child collection retrieve fails only when a
\* collaborator call raises, and otherwise returns no results, no
\* candidates and no parent context
C8_EmptyCorpus ==
    /\ (event.kind = "returned" /\ event.empty_corpus) =>
           /\ event.results = <<>>
           /\ event.total_candidates = 0
           /\ DOMAIN event.parent_context = {}
    /\ (event.kind = "raised" /\ event.empty_corpus) =>
           event.raised_by \in {"vector", "lexical", "hyde", "multi_query"}

\* retrieve returned on an empty collection with reranking enabled and
\* more than one query variant searched
C8_Witness ==
    /\ event.kind = "returned" /\ event.empty_corpus
    /\ retriever.reranker
    /\ Len(event.expanded_queries) > 1

\* ------------------------------------------------------------ claim C9
\* C9: the only failures retrieve propagates are those of the vector search
\* and of the lexical index
C9_OnlyIndexFailuresPropagate ==
    event.kind = "raised" => event.raised_by \in {"vector", "lexical"}
\* ------------------------- specification of the fusion under two weights
\* one query's vector and lexical result sets, fetched for k = 1 (three of
\* the four chunks in each) or k = 2 (all of them), and two weights
WeightsInit ==
    /\ unit \in [pc : {"ready"}, dist : [Chunks -> 0..MaxDistance],
                 raw : [Chunks -> 0..MaxRaw],
                 alpha1 : Alphas, alpha2 : Alphas, k : {1, 2},
                 vector_results : {<<>>}, bm25_results : {<<>>},
                 combined1 : {<<>>}, combined2 : {<<>>}]
    /\ unit.alpha1 < unit.alpha2
    /\ fusion = NoFusion /\ merge = NoMerge /\ rr = NoRerank /\ PipelineOff

\* the same result sets fused in full under alpha1 and under alpha2
FuseUnderBoth ==
    /\ unit.pc = "ready"
    /\ LET fetch_k == unit.k * 3
           nearest == collection_query(FullStore, unit.dist, fetch_k)
           raw_scores == [i \in 1..Len(FullStore) |-> unit.raw[FullStore[i]]]
           vector_results == _vector_search(nearest)
           bm25_results == bm25_rank(FullStore, raw_scores, fetch_k)
           all == Len(vector_results) + Len(bm25_results)
       IN  unit' = [unit EXCEPT
               !.pc = "done",
               !.vector_results = vector_results,
               !.bm25_results = bm25_results,
               !.combined1 = fuse(vector_results, bm25_results, unit.alpha1, all),
               !.combined2 = fuse(vector_results, bm25_results, unit.alpha2, all)]
    /\ UNCHANGED <<fusion, merge, rr, pipeline>>

WeightsNext == FuseUnderBoth

SpecWeights == WeightsInit /\ [][WeightsNext]_vars

\* ----------------------------------------- specification of the chunker
MaxPages == 2        \* a document has 1..MaxPages pages
MaxParents == 2      \* the parent splitter returns at most MaxParents spans of a page
MaxChildren == 2     \* the child splitter returns at most MaxChildren spans of a parent

\* what the random generator behind uuid4 is seeded with in a run
Entropy == {"e1", "e2"}

\* str(uuid4()), the n-th call of a run: the drawn ids of one run are
\* distinct, those of two runs agree only when the generator repeats itself
uuid4(entropy, n) == <<entropy, n>>

\* the parent Chunk: built without a parent_id argument, which defaults to None
parent_chunk(chunk_id, text, page, filename) ==
    [chunk_id |-> chunk_id, text |-> text,
     metadata |-> [page |-> page, chunk_type |-> "parent", filename |-> filename],
     parent_id |-> None]

\* the child Chunk built without its parent_id argument
child_chunk_unlinked(chunk_id, text, parent_id, page, filename) ==
    [chunk_id |-> chunk_id, text |-> text,
     metadata |-> [page |-> page, chunk_type |-> "child", parent_id |-> parent_id,
                   filename |-> filename],
     parent_id |-> None]

\* the child Chunk
child_chunk(chunk_id, text, parent_id, page, filename) ==
    [chunk_id |-> chunk_id, text |-> text,
     metadata |-> [page |-> page, chunk_type |-> "child", parent_id |-> parent_id,
                   filename |-> filename],
     parent_id |-> parent_id]

\* the loop of chunk_document over the first n pages: a page is split into
\* page.parents parent spans and each of them into page.children child
\* spans; a span's text is named by its place.  calls counts the uuid4 calls
RECURSIVE chunk_pages(_, _, _)
chunk_pages(document, n, entropy) ==
    IF n = 0 THEN [parent_chunks |-> <<>>, child_chunks |-> <<>>, calls |-> 0]
    ELSE LET before == chunk_pages(document, n - 1, entropy)
             page == document.pages[n]
             per_parent == 1 + page.children
             parent_id(j) == uuid4(entropy, before.calls + (j - 1) * per_parent + 1)
             parents == [j \in 1..page.parents |->
                            parent_chunk(parent_id(j), <<n, j>>, n, document.filename)]
             children ==
                [x \in 1..(page.parents * page.children) |->
                    LET j == ((x - 1) \div page.children) + 1
                        m == ((x - 1) % page.children) + 1
                    IN  child_chunk(
                            uuid4(entropy, before.calls + (j - 1) * per_parent + 1 + m),
                            <<n, j, m>>, parent_id(j), n, document.filename)]
         IN  [parent_chunks |-> before.parent_chunks \o parents,
              child_chunks |-> before.child_chunks \o children,
              calls |-> before.calls + page.parents * per_parent]

\* chunk_document(document): the ChunkedDocument
chunk_document(document, entropy) ==
    LET chunked == chunk_pages(document, Len(document.pages), entropy)
    IN  [parent_chunks |-> chunked.parent_chunks,
         child_chunks |-> chunked.child_chunks,
         filename |-> document.filename]

PageShapes == [parents : 0..MaxParents, children : 0..MaxChildren]

RECURSIVE PageLists(_)
PageLists(n) ==
    IF n = 0 THEN {<<>>}
    ELSE PageLists(n - 1)
         \cup {Append(ps, p) : ps \in {r \in PageLists(n - 1) : Len(r) = n - 1},
                               p \in PageShapes}

\* one loaded document, not chunked yet
ChunkerInit ==
    /\ unit \in [pc : {"ready"}, document : [filename : {"d1"},
                                            pages : PageLists(MaxPages) \ {<<>>}],
                 first : {None}, second : {None}]
    /\ fusion = NoFusion /\ merge = NoMerge /\ rr = NoRerank /\ PipelineOff

\* chunk_document(document), run a first and a second time on the same input
ChunkDocument ==
    /\ unit.pc \in {"ready", "once"}
    /\ \E entropy \in Entropy :
        unit' = IF unit.pc = "ready"
                THEN [unit EXCEPT !.pc = "once",
                                  !.first = chunk_document(unit.document, entropy)]
                ELSE [unit EXCEPT !.pc = "twice",
                                  !.second = chunk_document(unit.document, entropy)]
    /\ UNCHANGED <<fusion, merge, rr, pipeline>>

ChunkerNext == ChunkDocument

SpecChunker == ChunkerInit /\ [][ChunkerNext]_vars

\* -------------------------------- specification of the multi-query parser
MaxLines == 5        \* a completion has at most MaxLines lines

\* the lines a completion is made of: an empty one, a blank one, a bare
\* question, a numbered question with a trailing blank, a number alone
LineForms == {<<>>, <<" ">>, <<"b">>, <<"1", ".", " ", "b", " ">>, <<"1", ".">>}

\* the texts of up to n lines joined by newlines
RECURSIVE Completions(_)
Completions(n) ==
    IF n = 0 THEN {<<>>}
    ELSE IF n = 1 THEN LineForms
    ELSE Completions(n - 1)
         \cup {t \o <<"\n">> \o l :
                    t \in {c \in Completions(n - 1) : Count(c, {"\n"}) = n - 2},
                    l \in LineForms}

\* message.content of the completion: a text, or None
MultiQueryInit ==
    /\ unit \in [pc : {"ready"},
                 content : [none : {FALSE}, text : Completions(MaxLines)]
                           \cup {[none |-> TRUE, text |-> <<>>]},
                 queries : {<<>>}]
    /\ fusion = NoFusion /\ merge = NoMerge /\ rr = NoRerank /\ PipelineOff

\* multi_query from `text = ... or ""` on
ParseMultiQuery ==
    /\ unit.pc = "ready"
    /\ LET text == IF unit.content.none THEN <<>> ELSE unit.content.text
       IN  unit' = [unit EXCEPT !.pc = "done", !.queries = parse_multi_query(text)]
    /\ UNCHANGED <<fusion, merge, rr, pipeline>>

MultiQueryNext == ParseMultiQuery

SpecMultiQuery == MultiQueryInit /\ [][MultiQueryNext]_vars

\* ------------------------------------ specification of the normalization
MaxScores == 4       \* a score list has at most MaxScores scores

RECURSIVE ScoreLists(_)
ScoreLists(n) ==
    IF n = 0 THEN {<<>>}
    ELSE ScoreLists(n - 1)
         \cup {Append(ss, x) : ss \in {r \in ScoreLists(n - 1) : Len(r) = n - 1},
                               x \in 0..MaxRaw}

NormalizeInit ==
    /\ unit \in [pc : {"ready"}, scores : ScoreLists(MaxScores), normalized : {<<>>}]
    /\ fusion = NoFusion /\ merge = NoMerge /\ rr = NoRerank /\ PipelineOff

\* hs._normalize_scores(scores)
Normalize ==
    /\ unit.pc = "ready"
    /\ unit' = [unit EXCEPT !.pc = "done",
                            !.normalized = _normalize_scores(unit.scores)]
    /\ UNCHANGED <<fusion, merge, rr, pipeline>>

NormalizeNext == Normalize

SpecNormalize == NormalizeInit /\ [][NormalizeNext]_vars

\* ------------------------------ specification of the parent-context lookup
MaxResults == 4      \* a result list has at most MaxResults results
ParentRefs == {None, "p1", "p2"}

RECURSIVE ResultLists(_)
ResultLists(n) ==
    IF n = 0 THEN {<<>>}
    ELSE ResultLists(n - 1)
         \cup {Append(rs, [metadata |-> [parent_id |-> pid]]) :
                    rs \in {r \in ResultLists(n - 1) : Len(r) = n - 1},
                    pid \in ParentRefs}

\* a result list whose results name a parent or none, a parent store that
\* holds some of the parents, and at most one lookup that raises
ParentsInit ==
    /\ unit \in [pc : {"ready"}, results : ResultLists(MaxResults),
                 parents : SUBSET {"p1", "p2"},
                 failing : FailingSets({"p1", "p2"}),
                 parent_context : {<<>>}]
    /\ fusion = NoFusion /\ merge = NoMerge /\ rr = NoRerank /\ PipelineOff

\* self._get_parent_context(results)
ResolveParents ==
    /\ unit.pc = "ready"
    /\ unit' = [unit EXCEPT
            !.pc = "done",
            !.parent_context = _get_parent_context(unit.results, unit.parents,
                                                   unit.failing)]
    /\ UNCHANGED <<fusion, merge, rr, pipeline>>

ParentsNext == ResolveParents

SpecParents == ParentsInit /\ [][ParentsNext]_vars

\* ----------------------------------------------------------- claim C11
\* a retrieve call has returned and the same call had returned before it
ReturnedAgain ==
    event.kind = "returned" /\ event.previous.on /\ event.previous.seen

\* C11 as stated: the same query with the same arguments on the same
\* Retriever over an unchanged store returns the same results, in the same
\* order and with the same scores, as the call before it
C11_SameCallSameResults ==
    ReturnedAgain => event.results = event.previous.results

\* C11, amended: the same call returns the same results as the call before
\* it whenever both calls searched the same query variants and the
\* reranking model answered both alike (both ranked the same way, both fell
\* back, or neither reranked); whether the lexical index was built by the
\* earlier call or found cached makes no difference
C11_SameCallSameAnswersSameResults ==
    (/\ ReturnedAgain
     /\ event.expanded_queries = event.previous.expanded_queries
     /\ event.ranked_by = event.previous.ranked_by)
    => event.results = event.previous.results

\* the call is repeated with the same variants and the model ranking both
\* times, over two files, and returns results
C11_Witness ==
    /\ ReturnedAgain
    /\ event.expanded_queries = event.previous.expanded_queries
    /\ Len(event.expanded_queries) > 1
    /\ event.ranked_by = "reverses_order" /\ event.previous.ranked_by = "reverses_order"
    /\ Len(event.results) > 1
    /\ retriever._bm25 # <<>>
\* ----------------------------------------------------------- claim C12
WeighedIds == {unit.combined1[i].chunk_id : i \in 1..Len(unit.combined1)}

\* the normalized scores the fusion used: 0 for a chunk a search did not return
VectorScore(id) == ScoreIn(unit.vector_results, id)
LexicalScore(id) == ScoreIn(unit.bm25_results, id)

\* C12 as stated: with the result sets fixed and alpha1 < alpha2, a chunk
\* whose normalized vector score exceeds its normalized lexical score has a
\* rank position under alpha2 that is not worse than under alpha1
C12_RankNotWorse ==
    unit.pc = "done" =>
        \A x \in WeighedIds :
            VectorScore(x) > LexicalScore(x)
            => IndexOfId(unit.combined2, x) <= IndexOfId(unit.combined1, x)

\* C12, amended: with the result sets fixed and alpha1 < alpha2, a chunk
\* whose normalized vector score exceeds its normalized lexical score is
\* not overtaken under alpha2 by any chunk it preceded under alpha1 whose
\* excess of vector score over lexical score is not larger than its own,
\* and its fused score is not lower
C12_NotOvertakenBySmallerExcess ==
    unit.pc = "done" =>
        \A x \in WeighedIds :
            VectorScore(x) > LexicalScore(x)
            => /\ ScoreIn(unit.combined2, x) >= ScoreIn(unit.combined1, x)
               /\ \A y \in WeighedIds :
                    (/\ VectorScore(y) - LexicalScore(y)
                            <= VectorScore(x) - LexicalScore(x)
                     /\ IndexOfId(unit.combined1, x) < IndexOfId(unit.combined1, y))
                    => IndexOfId(unit.combined2, x) < IndexOfId(unit.combined2, y)

\* a chunk with the larger vector score moves up past a chunk that has the
\* larger lexical score, and stays ahead of a third with the same excess
C12_Witness ==
    /\ unit.pc = "done"
    /\ \E x, y, z \in WeighedIds :
        /\ VectorScore(x) > LexicalScore(x)
        /\ VectorScore(y) < LexicalScore(y)
        /\ IndexOfId(unit.combined1, y) < IndexOfId(unit.combined1, x)
        /\ IndexOfId(unit.combined2, x) < IndexOfId(unit.combined2, y)
        /\ z # x
        /\ VectorScore(z) - LexicalScore(z) = VectorScore(x) - LexicalScore(x)
        /\ IndexOfId(unit.combined1, x) < IndexOfId(unit.combined1, z)
\* ----------------------------------------------------------- claim C13
\* C13: the reranker is invoked exactly when reranking is enabled and the
\* merged candidate list is non-empty, and then with the caller's own query
\* (not the translated one, not a variant) and top_n = k; otherwise the
\* results are the first k merged candidates
C13_RerankUsesCallersQuery ==
    event.kind = "ranked" =>
        /\ event.reranked <=> (retriever.reranker /\ call.candidates # <<>>)
        /\ event.reranked => /\ event.rerank_query = call.query
                             /\ event.top_n = call.k
        /\ ~event.reranked => call.results = Prefix(call.candidates, call.k)

\* the reranker is invoked in a call whose query was translated and expanded
C13_Witness ==
    /\ event.kind = "ranked" /\ event.reranked
    /\ Len(call.queries) > 1
    /\ call.queries[1] # call.query
\* ----------------------------------------------------------- claim C14
\* C14: total_candidates is the number of distinct chunk ids the hybrid
\* searches of all the query variants returned, counted before reranking
\* and truncation, and the merged candidates hold each of those ids once,
\* in order of non-increasing score
C14_TotalCandidates ==
    event.kind = "returned" =>
        /\ event.total_candidates = Cardinality(event.hit_ids)
        /\ Len(event.candidates) = event.total_candidates
        /\ {event.candidates[i].chunk_id : i \in 1..Len(event.candidates)}
                = event.hit_ids
        /\ \A i \in 1..Len(event.candidates) - 1 :
                event.candidates[i].score >= event.candidates[i + 1].score

\* several variants were searched, the candidates have different scores and
\* more of them were merged than are returned
C14_Witness ==
    /\ event.kind = "returned"
    /\ Len(event.expanded_queries) > 1
    /\ event.total_candidates >= 3
    /\ Len(event.results) < event.total_candidates
    /\ event.candidates[1].score > event.candidates[event.total_candidates].score
\* ----------------------------------------------------------- claim C15
\* the parent ids the results name
Referenced ==
    {unit.results[i].metadata.parent_id : i \in 1..Len(unit.results)} \ {None}

\* C15: with the parent store answering, parent_context has an entry for
\* exactly the distinct parent ids that some result names and the store
\* holds, each mapped to the stored text; results without a parent_id and
\* ids the store does not hold add no entry and raise nothing.  A lookup
\* that raises takes away its own entry and no other
C15_ParentContext ==
    unit.pc = "done" =>
        /\ DOMAIN unit.parent_context
                = (Referenced \cap unit.parents) \ unit.failing
        /\ unit.failing = {}
                => DOMAIN unit.parent_context = Referenced \cap unit.parents
        /\ \A pid \in DOMAIN unit.parent_context :
                unit.parent_context[pid] = ParentTextOf(pid)

\* two results name p1, one names a parent the store lacks, one has no
\* parent_id, and the map holds p1 alone
C15_Witness ==
    /\ unit.pc = "done" /\ unit.failing = {}
    /\ Cardinality({i \in 1..Len(unit.results) :
                        unit.results[i].metadata.parent_id = "p1"}) = 2
    /\ \E i \in 1..Len(unit.results) : unit.results[i].metadata.parent_id = None
    /\ \E i \in 1..Len(unit.results) : unit.results[i].metadata.parent_id = "p2"
    /\ unit.parents = {"p1"}
    /\ DOMAIN unit.parent_context = {"p1"}
\* ----------------------------------------------------------- claim C16
\* the largest and the smallest of a non-empty score list
Largest(scores) ==
    CHOOSE m \in Range(scores) : \A x \in Range(scores) : m >= x
Smallest(scores) ==
    CHOOSE m \in Range(scores) : \A x \in Range(scores) : m <= x

\* C16: _normalize_scores returns a list of the same length and order in
\* which each score s has become (s - min) / (max - min), so every minimum
\* becomes 0.0 and every maximum 1.0 (Scale on the grid); when all the
\* scores are equal every output is 1.0; an empty list gives an empty list
C16_MinMaxNormalization ==
    unit.pc = "done" =>
        LET scores == unit.scores
            out == unit.normalized
        IN  /\ Len(out) = Len(scores)
            /\ scores # <<>> =>
                LET hi == Largest(scores)
                    lo == Smallest(scores)
                IN  \A i \in 1..Len(scores) :
                        /\ hi = lo => out[i] = Scale
                        /\ hi # lo =>
                            /\ out[i] * (hi - lo) = (scores[i] - lo) * Scale
                            /\ scores[i] = lo => out[i] = 0
                            /\ scores[i] = hi => out[i] = Scale

\* a list with its minimum, a score half way and its maximum, out of order
C16_Witness ==
    /\ unit.pc = "done"
    /\ Len(unit.scores) >= 3
    /\ unit.scores[1] = 1 /\ unit.scores[2] = 2 /\ unit.scores[3] = 0
    /\ unit.normalized[1] * 2 = Scale
    /\ unit.normalized[2] = Scale /\ unit.normalized[3] = 0
\* ----------------------------------------------------------- claim C17
\* the ChunkedDocuments produced so far
Produced ==
    (IF unit.pc \in {"once", "twice"} THEN {unit.first} ELSE {})
    \cup (IF unit.pc = "twice" THEN {unit.second} ELSE {})

\* C17: in every produced ChunkedDocument each child chunk has a parent_id
\* that is not none, equals its metadata's parent_id and is the chunk_id of
\* one of the parent chunks of the same document, and each parent chunk has
\* parent_id none
C17_ChildrenReferenceParents ==
    \A doc \in Produced :
        /\ \A i \in 1..Len(doc.child_chunks) :
            LET child == doc.child_chunks[i]
            IN  /\ child.parent_id # None
                /\ child.parent_id = child.metadata.parent_id
                /\ \E j \in 1..Len(doc.parent_chunks) :
                        /\ doc.parent_chunks[j].chunk_id = child.parent_id
                        /\ doc.parent_chunks[j].metadata.filename
                                = child.metadata.filename
        /\ \A j \in 1..Len(doc.parent_chunks) : doc.parent_chunks[j].parent_id = None

\* a document of two pages with two parents each and children under both
C17_Witness ==
    /\ unit.pc = "once"
    /\ Len(unit.first.parent_chunks) = 4
    /\ Len(unit.first.child_chunks) >= 4
    /\ unit.first.child_chunks[1].parent_id # unit.first.child_chunks[2].parent_id

\* ----------------------------------------------------------- claim C18
\* C18: two runs of chunk_document on the same input produce the same
\* ChunkedDocument: the same chunk ids, texts, metadata, parent references
\* and order
C18_ChunkingDeterministic ==
    unit.pc = "twice" => unit.first = unit.second
\* ----------------------------------------------------------- claim C19
\* the completion's text, "" for None
Content == IF unit.content.none THEN <<>> ELSE unit.content.text

\* the places before a line: 0 and the places of the newlines
LineBreaks == {0} \cup {i \in 1..Len(Content) : Content[i] = "\n"}

\* the end of the line that begins after place a
LineEnd(a) ==
    IF \E i \in LineBreaks : i > a
    THEN (CHOOSE i \in LineBreaks : i > a /\ \A j \in LineBreaks : j > a => i <= j) - 1
    ELSE Len(Content)

\* the places of the line after a that hold something other than whitespace
Inked(a) == {i \in (a + 1)..LineEnd(a) : Content[i] \notin Whitespace}

\* the non-blank lines, named by the place before them
NonBlankLines == {a \in LineBreaks : Inked(a) # {}}

\* the n-th non-blank line
NthNonBlank(n) ==
    CHOOSE a \in NonBlankLines : Cardinality({b \in NonBlankLines : b < a}) = n - 1

\* a non-blank line without the whitespace around it and without the
\* digits, dots, dashes, brackets and blanks it begins with
Unmarked(a) ==
    LET last == CHOOSE i \in Inked(a) : \A j \in Inked(a) : j <= i
        body == {i \in Inked(a) : Content[i] \notin EnumerationChars}
    IN  IF body = {} THEN <<>>
        ELSE SubSeq(Content, CHOOSE i \in body : \A j \in body : i <= j, last)

\* C19: multi_query returns at most 3 queries; they are the first non-blank
\* lines of the completion, in order, each without its surrounding
\* whitespace and its leading enumeration markup; an empty or blank
\* completion gives no queries
C19_MultiQueryParsing ==
    unit.pc = "done" =>
        /\ Len(unit.queries) <= 3
        /\ Len(unit.queries) = Min2(3, Cardinality(NonBlankLines))
        /\ \A n \in 1..Len(unit.queries) : unit.queries[n] = Unmarked(NthNonBlank(n))
        /\ (\A i \in 1..Len(Content) : Content[i] \in Whitespace) => unit.queries = <<>>

\* a completion of five lines, a blank one among the first three and four
\* that are not blank, one of them numbered: three queries come back and
\* the one after the blank line is among them
C19_Witness ==
    /\ unit.pc = "done"
    /\ Cardinality(LineBreaks) = 5
    /\ Cardinality(NonBlankLines) = 4
    /\ 0 \in NonBlankLines
    /\ \E a \in LineBreaks \ NonBlankLines :
            Cardinality({b \in NonBlankLines : b < a}) < 3
    /\ Len(unit.queries) = 3
    /\ unit.queries[1] = <<"b">> /\ Content[1] = "1"
\* ----------------------------------------------------------- claim C20
\* the stage a retrieve call is in, and the stages it may pass to
StageSteps ==
    {<<"idle", "idle">>, <<"idle", "translate">>, <<"translate", "expand">>,
     <<"expand", "search">>, <<"search", "search">>, <<"search", "rank">>,
     <<"rank", "parent">>, <<"parent", "idle">>,
     <<"translate", "idle">>, <<"expand", "idle">>, <<"search", "idle">>}

\* C20: within one retrieve call the stages run in the order translation,
\* expansion, hybrid search of every query variant, reranking, parent
\* context; the reranking step comes only when every variant has been
\* searched, once each and in order, and is taken at most once; the parent
\* context is resolved once, from the final results, as the call returns
C20_StageOrder ==
    [][/\ <<call.pc, call'.pc>> \in StageSteps
       /\ (call.pc # "idle" /\ call'.pc = "idle")
            => event'.kind \in {"returned", "raised"}
       /\ event'.kind = "searched"
            => /\ call.pc = "search" /\ call'.qi = call.qi + 1
               /\ call.qi \in 1..Len(call.queries)
               /\ call'.queries = call.queries
       /\ call'.pc = "rank" => call'.qi = Len(call'.queries) + 1
       /\ event'.kind = "ranked"
            => /\ call.pc = "rank" /\ call'.pc = "parent"
               /\ call.qi = Len(call.queries) + 1
       /\ event'.kind = "returned"
            => /\ call.pc = "parent"
               /\ event'.results = call.results
               /\ DOMAIN event'.parent_context
                    \subseteq {call.results[i].metadata.parent_id :
                                    i \in 1..Len(call.results)}
      ]_vars

\* a call with a translated query and several variants has been reranked
\* and returns fewer results than it had candidates, with the parents of
\* those results only
C20_Witness ==
    /\ event.kind = "returned"
    /\ Len(event.expanded_queries) > 1
    /\ event.expanded_queries[1] # event.query
    /\ event.ranked_by = "reverses_order"
    /\ Len(event.results) < event.total_candidates
    /\ event.parent_context # <<>>
    /\ \E i \in 1..Len(event.candidates) :
            event.candidates[i].metadata.parent_id \notin DOMAIN event.parent_context
\* ----------------------------------------------------------- claim C21
\* the steps of a retrieve call, by what they report
RetrieveSteps ==
    {"called", "translated", "expanded", "searched", "ranked", "returned", "raised"}

\* C21: no step of a retrieve call (language detection, translation,
\* expansion, the searches and the index build, reranking, parent lookup)
\* adds, changes or removes anything in the child or the parent store
C21_RetrieveReadsOnly ==
    [][event'.kind \in RetrieveSteps
        => /\ collection' = collection
           /\ parent_collection' = parent_collection]_vars

\* a call whose query was translated has built the index, reranked and
\* looked parents up over two files, and the stores hold what they held
C21_Witness ==
    /\ event.kind = "returned"
    /\ event.expanded_queries[1] # event.query
    /\ event.ranked_by = "keeps_order"
    /\ retriever._bm25 # <<>>
    /\ DOMAIN event.parent_context # {}
    /\ Len(collection) = 4 /\ parent_collection = Parents

\* ----------------------------------------------------------- claim C22
\* C22: whenever no embed_and_store call is under way, whatever calls were
\* made before and however they ended, every child chunk in the child
\* collection has its parent_id in the parent collection
C22_StoredChildrenHaveParents ==
    ingest.pc = "idle"
        => \A i \in 1..Len(collection) : ParentIdOf(collection[i]) \in parent_collection

\* ------------------- specification of embed_and_store calls that overlap
\* the callers whose embed_and_store calls may overlap (the sessions of the
\* user interface run in threads of one process; the API and the user
\* interface are processes over one persistent store)
Callers == {"t1", "t2"}
\* how many embed_and_store calls are made in all
MaxIngestions == 3

IdleCaller == [pc |-> "idle", doc |-> None, ingestion |-> 0, returned |-> None]

\* the chunks one ingestion adds: chunk_document gives every run fresh ids,
\* so a stored chunk is told by the ingestion that made it
batch_of(d, ingestion) ==
    {[filename |-> d, ingestion |-> ingestion, text |-> ChildrenOf(d)[j]] :
        j \in 1..Len(ChildrenOf(d))}

ConcurrentInit ==
    /\ PipelineOff
    /\ fusion = NoFusion /\ merge = NoMerge /\ rr = NoRerank
    /\ unit = [pc |-> "concurrent", stored |-> {}, calls |-> 0,
               caller |-> [t \in Callers |-> IdleCaller]]

\* embed_and_store up to the batch loop: collection.get(where = filename)
\* and the early return of 0
CheckExisting(t, d) ==
    /\ unit.pc = "concurrent"
    /\ unit.caller[t].pc = "idle"
    /\ unit.calls < MaxIngestions
    /\ LET existing == {c \in unit.stored : c.filename = d}
       IN  unit' = [unit EXCEPT
                !.calls = unit.calls + 1,
                !.caller[t] = IF existing # {}
                              THEN [IdleCaller EXCEPT !.returned = 0]
                              ELSE [pc |-> "embed", doc |-> d,
                                    ingestion |-> unit.calls + 1,
                                    returned |-> None]]
    /\ UNCHANGED <<fusion, merge, rr, pipeline>>

\* the batch loop (one batch below batch_size chunks): embed_documents and
\* collection.add, then the return of total_stored; an error leaves the call
AddBatch(t) ==
    /\ unit.pc = "concurrent"
    /\ unit.caller[t].pc = "embed"
    /\ \E ok \in BOOLEAN :
        LET me == unit.caller[t]
            batch == batch_of(me.doc, me.ingestion)
        IN  unit' = IF ok
                    THEN [unit EXCEPT !.stored = unit.stored \cup batch,
                                      !.caller[t] = [IdleCaller EXCEPT
                                            !.returned = Cardinality(batch)]]
                    ELSE [unit EXCEPT !.caller[t] = IdleCaller]
    /\ UNCHANGED <<fusion, merge, rr, pipeline>>

ConcurrentNext ==
    \/ \E t \in Callers, d \in Docs : CheckExisting(t, d)
    \/ \E t \in Callers : AddBatch(t)

SpecConcurrent == ConcurrentInit /\ [][ConcurrentNext]_vars

\* ----------------------------------------------------------- claim C23
\* C23: at any time, also while embed_and_store calls for one filename
\* overlap, the chunks stored under one filename come from a single
\* ingestion
C23_OneIngestionPerFilename ==
    unit.pc = "concurrent"
        => \A c1, c2 \in unit.stored :
                c1.filename = c2.filename => c1.ingestion = c2.ingestion

\* ----------------------------------------------------------- claim C24
\* query_document: the state handed to run for a question on a document
query_document(document_id, question) ==
    [task_type |-> "qa", question |-> question, document_id |-> document_id]

\* retrieve_context for a state without context: how the Retriever is built
\* and what retrieve is called with
retrieve_context(state) ==
    [use_reranking |-> TRUE, use_query_expansion |-> FALSE,
     use_query_translation |-> TRUE,
     query |-> state.question, k |-> RETRIEVAL_TOP_K]

\* C24: the results retrieved for a question asked through the query
\* endpoint on an ingested document are chunks of that document only
C24_DocumentIsolation ==
    \A document_id \in Docs, question \in UserQueries :
        LET asked == retrieve_context(query_document(document_id, question))
        IN  (/\ event.kind = "returned"
             /\ retriever.reranker = asked.use_reranking
             /\ retriever.use_query_expansion = asked.use_query_expansion
             /\ retriever.use_query_translation = asked.use_query_translation
             /\ event.query = asked.query /\ event.k = asked.k
             /\ \E i \in 1..Len(collection) : FilenameOf(collection[i]) = document_id)
            => \A i \in 1..Len(event.results) :
                    event.results[i].metadata.filename = document_id

\* ----------------------------------------------------------- claim C25
\* C25: a Retriever constructed with use_query_expansion = False never
\* expands a query, whatever use_query_translation is and whatever use_hyde
\* and use_multi_query a call passes, and the expanded_queries it returns
\* have exactly one element
C25_NoExpansionWithoutFlag ==
    (retriever.exists /\ ~retriever.use_query_expansion)
        => /\ event.kind = "expanded" => ~event.expanding
           /\ event.kind = "returned" => Len(event.expanded_queries) = 1

\* ------------------- specification of the lexical share of one search
\* how far below 0 a raw BM25 score may lie: BM25Okapi gives the terms that
\* most chunks hold a negative weight when the average weight is negative
MaxDebit == 1
RawScores == (0 - MaxDebit)..(MaxRaw - MaxDebit)

LexicalInit ==
    /\ PipelineOff
    /\ fusion = NoFusion /\ merge = NoMerge /\ rr = NoRerank
    /\ unit \in [pc : {"lexical"}, dist : [Chunks -> {0, MaxDistance}],
                 raw : [Chunks -> RawScores], alpha : Alphas, k : 0..MaxCallK,
                 vector_results : {<<>>}, bm25_results : {<<>>}, out : {<<>>}]

\* hs.search(query, k) over the full store, keeping what both searches gave
LexicalSearch ==
    /\ unit.pc = "lexical"
    /\ LET fetch_k == EffK(unit.k) * 3
           raw_scores == [i \in 1..Len(FullStore) |-> unit.raw[FullStore[i]]]
       IN  unit' = [unit EXCEPT
               !.pc = "searched",
               !.vector_results =
                    _vector_search(collection_query(FullStore, unit.dist, fetch_k)),
               !.bm25_results = bm25_rank(FullStore, raw_scores, fetch_k),
               !.out = search(FullStore, unit.dist, FullStore, raw_scores,
                             unit.alpha, unit.k)]
    /\ UNCHANGED <<fusion, merge, rr, pipeline>>

LexicalNext == LexicalSearch

SpecLexical == LexicalInit /\ [][LexicalNext]_vars

\* ----------------------------------------------------------- claim C26
\* what the vector search contributed to the fused score of result r
VectorShare(r) ==
    IF HasId(unit.vector_results, r.chunk_id)
    THEN unit.alpha
         * unit.vector_results[IndexOfId(unit.vector_results, r.chunk_id)].score
    ELSE 0
\* the lexical component of the fused score of result r
LexicalShare(r) == r.score - VectorShare(r)
\* the raw scores of the chunks the BM25 search returned
ReturnedRaw == {unit.raw[unit.bm25_results[i].chunk_id] :
                    i \in 1..Len(unit.bm25_results)}

\* C26: a returned chunk whose raw BM25 score is 0 has a lexical component
\* of 0 in its fused score, also when every chunk of the corpus scores 0
C26_NoLexicalCreditWithoutMatch ==
    unit.pc = "searched"
        => \A i \in 1..Len(unit.out) :
                unit.raw[unit.out[i].chunk_id] = 0 => LexicalShare(unit.out[i]) = 0

\* C26 amended: a returned chunk whose raw BM25 score is 0 has a lexical
\* component of 0 when it is not among the fetch_k chunks the BM25 search
\* returned, or when 0 is the lowest raw score among them and one of them
\* scores higher; when all of them score the same, as when every chunk of
\* the corpus scores 0, its lexical component is (1 - alpha) * 1.0
C26_NoLexicalCreditBelowTheBest ==
    unit.pc = "searched"
        => \A i \in 1..Len(unit.out) :
            LET r == unit.out[i]
            IN  unit.raw[r.chunk_id] = 0
                => /\ ~HasId(unit.bm25_results, r.chunk_id) => LexicalShare(r) = 0
                   /\ (/\ HasId(unit.bm25_results, r.chunk_id)
                       /\ \A x \in ReturnedRaw : x >= 0
                       /\ \E x \in ReturnedRaw : x > 0) => LexicalShare(r) = 0
                   /\ (/\ HasId(unit.bm25_results, r.chunk_id)
                       /\ ReturnedRaw = {0})
                        => LexicalShare(r) = (AlphaDen - unit.alpha) * Scale

\* a search at alpha = 0.6 in which every chunk scores 0 and all are returned
C26_Witness ==
    /\ unit.pc = "searched"
    /\ unit.alpha = HYBRID_ALPHA
    /\ Len(unit.out) = Len(FullStore)
    /\ \A c \in Chunks : unit.raw[c] = 0

\* ----------------------------------------------------------- claim C27
\* C27: the results a retrieve call returns for k >= 1 hold at most k
\* entries, no chunk id twice, only chunk ids of the merged candidates, and
\* no more entries than total_candidates, whether the reranker ranked them,
\* failed or was disabled
C27_ResultBound ==
    (event.kind = "returned" /\ event.k >= 1)
        => /\ Len(event.results) <= event.k
           /\ \A i, j \in 1..Len(event.results) :
                event.results[i].chunk_id = event.results[j].chunk_id => i = j
           /\ \A i \in 1..Len(event.results) :
                HasId(event.candidates, event.results[i].chunk_id)
           /\ Len(event.results) <= event.total_candidates

\* a call with k = 1 whose reranker failed on two candidates
C27_Witness ==
    /\ event.kind = "returned"
    /\ event.k = 1
    /\ event.ranked_by = "fallback"
    /\ event.total_candidates = 2
    /\ Len(event.results) = 1

\* -------------------------------------- specification of the RateLimiter
\* RateLimiter(max_requests, window_seconds), scaled down from (50, 60)
max_requests == 2
window_seconds == 2
\* the clock readings the behaviours run through
MaxNow == 6
\* how many requests are recorded in all
MaxRecorded == 5

\* RateLimiter._clean_window at clock reading now
RECURSIVE _clean_window(_, _)
_clean_window(timestamps, now) ==
    IF timestamps # <<>> /\ now - timestamps[1] > window_seconds
    THEN _clean_window(Tail(timestamps), now)
    ELSE timestamps

LimiterInit ==
    /\ PipelineOff
    /\ fusion = NoFusion /\ merge = NoMerge /\ rr = NoRerank
    /\ unit = [pc |-> "limiter", now |-> 0, at |-> "idle", _timestamps |-> <<>>,
               _total_requests |-> 0]

\* time passes while the caller does something else
Tick ==
    /\ unit.pc = "limiter"
    /\ unit.now < MaxNow
    /\ unit' = [unit EXCEPT !.now = unit.now + 1]
    /\ UNCHANGED <<fusion, merge, rr, pipeline>>

\* RateLimiter.wait_if_needed: time.sleep(wait_time) returns after
\* wait_time or later
WaitIfNeeded ==
    /\ unit.pc = "limiter"
    /\ unit.at = "idle"
    /\ LET cleaned == _clean_window(unit._timestamps, unit.now)
       IN  IF Len(cleaned) >= max_requests
           THEN LET wait_time == cleaned[1] + window_seconds - unit.now
                IN  IF wait_time > 0
                    THEN \E late \in {0, 1} :
                            /\ unit.now + wait_time + late <= MaxNow
                            /\ unit' = [unit EXCEPT
                                    !.at = "slot",
                                    !.now = unit.now + wait_time + late,
                                    !._timestamps =
                                        _clean_window(cleaned,
                                                      unit.now + wait_time + late)]
                    ELSE unit' = [unit EXCEPT !.at = "slot", !._timestamps = cleaned]
           ELSE unit' = [unit EXCEPT !.at = "slot", !._timestamps = cleaned]
    /\ UNCHANGED <<fusion, merge, rr, pipeline>>

\* RateLimiter.record_request, by a caller that waited first
RecordRequest ==
    /\ unit.pc = "limiter"
    /\ unit.at = "slot"
    /\ unit._total_requests < MaxRecorded
    /\ unit' = [unit EXCEPT !.at = "idle",
                            !._timestamps = Append(unit._timestamps, unit.now),
                            !._total_requests = unit._total_requests + 1]
    /\ UNCHANGED <<fusion, merge, rr, pipeline>>

LimiterNext ==
    \/ Tick
    \/ WaitIfNeeded
    \/ RecordRequest

SpecLimiter == LimiterInit /\ [][LimiterNext]_vars

\* ----------------------------------------------------------- claim C28
\* the recorded requests less than window_seconds old
InWindow ==
    Cardinality({i \in 1..Len(unit._timestamps) :
                    unit.now - unit._timestamps[i] < window_seconds})

\* C28: wait_if_needed returns only when fewer than max_requests recorded
\* requests lie within the last window_seconds, and for a caller that waits
\* before every record_request the recorded requests within the window
\* never exceed max_requests
C28_SlotGuarantee ==
    unit.pc = "limiter"
        => /\ unit.at = "slot" => InWindow < max_requests
           /\ InWindow <= max_requests

\* -------------------------------------- specification of the LLMProvider
\* @retry(stop=stop_after_attempt(3)) on _call_openai
stop_after_attempt == 3
\* how many invoke calls one provider serves
MaxInvokes == 3

NoResult == [kind |-> "none", by |-> None, attempts |-> 0, rate_limited |-> 0]

\* the environment: whether the Ollama server answers /api/tags with 200
\* (and then completes a chat request)
ProviderInit ==
    /\ PipelineOff
    /\ fusion = NoFusion /\ merge = NoMerge /\ rr = NoRerank
    /\ unit \in [pc : {"provider"}, ollama_up : BOOLEAN, at : {"idle"},
                 attempt : {0}, rate_limited : {0}, invokes : {0},
                 _active_provider : {"openai"}, _ollama_available : {None},
                 _total_requests : {0}, result : {NoResult}]

\* what leaves the retrying _call_openai when chat.completions.create
\* raised on this attempt: tenacity retries a RateLimitError while attempts
\* are left and raises RetryError after the last one (no reraise=True);
\* any other exception leaves at once
_call_openai_raises(answer, attempt) ==
    IF answer = "RateLimitError"
    THEN IF attempt < stop_after_attempt THEN "retry" ELSE "RetryError"
    ELSE answer

\* LLMProvider.invoke, the start of the try block
Invoke ==
    /\ unit.pc = "provider"
    /\ unit.at = "idle"
    /\ unit.invokes < MaxInvokes
    /\ unit' = [unit EXCEPT !.at = "openai", !.attempt = 1, !.rate_limited = 0,
                            !.invokes = unit.invokes + 1, !.result = NoResult]
    /\ UNCHANGED <<fusion, merge, rr, pipeline>>

\* invoke's handler for what left _call_openai: `except RateLimitError`
\* with _check_ollama and _call_ollama, every other exception propagating
invoke_except(raised) ==
    IF raised # "RateLimitError"
    THEN [unit EXCEPT !.at = "idle",
                      !.result = [kind |-> "raised", by |-> raised,
                                  attempts |-> unit.attempt,
                                  rate_limited |-> unit.rate_limited + 1]]
    ELSE LET available == IF unit._ollama_available # None
                          THEN unit._ollama_available = "yes"
                          ELSE unit.ollama_up
         IN  [unit EXCEPT
                !.at = "idle",
                !._ollama_available = IF available THEN "yes" ELSE "no",
                !._active_provider = IF available THEN "ollama" ELSE @,
                !.result = [kind |-> IF available THEN "returned" ELSE "raised",
                            by |-> IF available THEN "ollama" ELSE raised,
                            attempts |-> unit.attempt,
                            rate_limited |-> unit.rate_limited + 1]]

\* one attempt of _call_openai: wait_if_needed, chat.completions.create and,
\* when it answered, record_request
CallOpenAI ==
    /\ unit.pc = "provider"
    /\ unit.at = "openai"
    /\ \E answer \in {"ok", "RateLimitError", "APIError"} :
        LET raised == _call_openai_raises(answer, unit.attempt)
        IN  unit' =
              IF answer = "ok"
              THEN [unit EXCEPT !.at = "idle", !._active_provider = "openai",
                                !._total_requests = unit._total_requests + 1,
                                !.result = [kind |-> "returned", by |-> "openai",
                                            attempts |-> unit.attempt,
                                            rate_limited |-> unit.rate_limited]]
              ELSE IF raised = "retry"
              THEN [unit EXCEPT !.attempt = unit.attempt + 1,
                                !.rate_limited = unit.rate_limited + 1]
              ELSE IF answer = "APIError"
              THEN [unit EXCEPT !.at = "idle",
                                !.result = [kind |-> "raised", by |-> raised,
                                            attempts |-> unit.attempt,
                                            rate_limited |-> unit.rate_limited]]
              ELSE invoke_except(raised)
    /\ UNCHANGED <<fusion, merge, rr, pipeline>>

ProviderNext ==
    \/ Invoke
    \/ CallOpenAI

SpecProvider == ProviderInit /\ [][ProviderNext]_vars

\* ----------------------------------------------------------- claim C29
\* C29: invoke makes at most 3 attempts on OpenAI and retries only after a
\* rate-limit error; when every attempt was rate limited it returns
\* Ollama's answer with active_provider "ollama" if Ollama is available,
\* and raises the rate-limit error if it is not
C29_ProviderFallback ==
    (unit.pc = "provider" /\ unit.result.kind # "none")
        => /\ unit.result.attempts <= stop_after_attempt
           /\ unit.result.attempts - 1 <= unit.result.rate_limited
           /\ unit.result.rate_limited = stop_after_attempt
                => IF unit.ollama_up
                   THEN /\ unit.result.kind = "returned"
                        /\ unit.result.by = "ollama"
                        /\ unit._active_provider = "ollama"
                   ELSE /\ unit.result.kind = "raised"
                        /\ unit.result.by = "RateLimitError"

\* -------------------------------- specification of the orchestrator graph
TaskTypes == {"risk", "qa", "summary"}

\* classify_task: the state it returns, answer being the content of the
\* classification completion ("" when it has none)
classify_task(state, answer) ==
    IF state.task_type \in TaskTypes THEN state
    ELSE LET classified == IF answer = "" THEN "qa" ELSE answer
         IN  [state EXCEPT !.task_type = IF classified \in TaskTypes
                                         THEN classified ELSE "qa"]

\* every state routed to the QA agent
route_to_agent_qa(state) == "qa_agent"

\* route_to_agent: route_map.get(task_type, "qa_agent")
route_to_agent(state) ==
    CASE state.task_type = "risk" -> "risk_agent"
      [] state.task_type = "qa" -> "qa_agent"
      [] state.task_type = "summary" -> "summary_agent"
      [] OTHER -> "qa_agent"

\* run(task_type, question, context): the initial state at the entry point
GraphInit ==
    /\ PipelineOff
    /\ fusion = NoFusion /\ merge = NoMerge /\ rr = NoRerank
    /\ unit \in {[pc |-> "graph", node |-> "classify", path |-> <<>>,
                  given |-> g, state |-> g, answer |-> None] :
                    g \in [task_type : TaskTypes \cup {"", "contract"},
                           question : {<<>>, <<"a">>},
                           context : BOOLEAN, agent : {""}]}

\* the node classify; the completion is asked only for a task_type that is
\* none of the three, and may raise
ClassifyTask ==
    /\ unit.pc = "graph" /\ unit.node = "classify"
    /\ \E answer \in (IF unit.state.task_type \in TaskTypes THEN {None}
                      ELSE TaskTypes \cup {"", "termination", "raises"}) :
        unit' = IF answer = "raises"
                THEN [unit EXCEPT !.node = "raised", !.answer = answer]
                ELSE [unit EXCEPT !.node = "retrieve", !.answer = answer,
                                  !.path = Append(unit.path, "classify"),
                                  !.state = classify_task(unit.state, answer)]
    /\ UNCHANGED <<fusion, merge, rr, pipeline>>

\* the node retrieve and the conditional edge behind it; a state that brings
\* its context is passed on, otherwise the retrieval fills it or raises
RetrieveContext ==
    /\ unit.pc = "graph" /\ unit.node = "retrieve"
    /\ \E raises \in (IF unit.state.context THEN {FALSE} ELSE BOOLEAN) :
        unit' = IF raises
                THEN [unit EXCEPT !.node = "raised"]
                ELSE [unit EXCEPT !.node = route_to_agent(unit.state),
                                  !.path = Append(unit.path, "retrieve"),
                                  !.state.context = TRUE]
    /\ UNCHANGED <<fusion, merge, rr, pipeline>>

\* the nodes risk_agent, qa_agent and summary_agent, each with its edge to
\* END; the agent's completion may raise
RunAgent ==
    /\ unit.pc = "graph"
    /\ unit.node \in {"risk_agent", "qa_agent", "summary_agent"}
    /\ \E raises \in BOOLEAN :
        unit' = IF raises
                THEN [unit EXCEPT !.node = "raised"]
                ELSE [unit EXCEPT !.node = "END",
                                  !.path = Append(unit.path, unit.node),
                                  !.state.agent = unit.state.task_type]
    /\ UNCHANGED <<fusion, merge, rr, pipeline>>

GraphNext ==
    \/ ClassifyTask
    \/ RetrieveContext
    \/ RunAgent

SpecGraph == GraphInit /\ [][GraphNext]_vars

\* ----------------------------------------------------------- claim C30
\* the agent the claim names for a run: the one of the given task_type, or
\* of the classification when the task_type is none of the three, the QA
\* agent for a classification that is none of the three
NamedAgent ==
    LET type == IF unit.given.task_type \in TaskTypes THEN unit.given.task_type
                ELSE IF unit.answer \in TaskTypes THEN unit.answer
                ELSE "qa"
    IN  CASE type = "risk" -> "risk_agent"
          [] type = "summary" -> "summary_agent"
          [] OTHER -> "qa_agent"

====
